---- MODULE Spec2Model ----
(***************************************************************************)
(* The chat assistant of src/agent.py: a two-node graph (chatbot, tools)   *)
(* over a single state channel `messages` whose reducer is add_messages.   *)
(*                                                                         *)
(*   MergeSpec  the reducer alone: conversations are built by merging      *)
(*              batches drawn from a small pool of messages.               *)
(*   Spec       one run of the compiled graph `app` (app.invoke): the      *)
(*              super-steps chatbot -> tools_condition -> tools -> chatbot *)
(*              under the runtime's recursion limit.                       *)
(*   FairSpec   Spec with weak fairness: the runtime always takes the      *)
(*              next step of a run that has one.                           *)
(*   CalcSpec   the calculator tool alone: one call on an expression       *)
(*              drawn from small families of texts.                        *)
(*   SearchSpec the web_search tool alone: one call on a query, the        *)
(*              network answering each request in any of its ways.         *)
(***************************************************************************)
EXTENDS Integers, Sequences, FiniteSets, TLC

VARIABLES
    mode,          \* which entry point is exercised: "merge" | "run" | "calc" |
                   \* "search"
    messages,      \* State.messages, the only channel of the graph
    uuid,          \* number of uuid4 ids handed out so far by add_messages
    pc,            \* the run: "start", the node to run next ("chatbot",
                   \* "tools"), "tools_running" (ToolNode's executor is busy),
                   \* "done" (invoke returned), "raised" (GraphRecursionError
                   \* reached the caller), "crashed" (a node's exception did)
    step,          \* super-steps executed in this run
    tool_calls,    \* ToolNode: the calls of the phase being (or last) executed
    outputs,       \* ToolNode: outputs[i] is the message for tool_calls[i], or None
    finished,      \* ToolNode: the indices of tool_calls in completion order
    ncalls,        \* number of tool-call ids the backend has issued
    responses,     \* history: outcome of each backend invocation, in order:
                   \* "calls" | "final" | "failed"
    toolPhases,    \* history: number of completed tools super-steps
    lastNode,      \* history: the node run by the last completed super-step
    fallbacks,     \* history: ids of the messages synthesized by chatbot's except branch
    input,         \* history: the messages the caller passed to app.invoke
    offered,       \* history: the tool names bound to the backend at each of
                   \* its invocations, in order
    argument,      \* a tool alone: the argument of the call
    returned,      \* a tool alone: the returned text, or NotCalled
    callee,        \* a tool alone: which one was called: "agent" (calculator
                   \* of agent.py), "tools" (calculator of tools.py),
                   \* "web_search", or "none"
    trace          \* web_search: the search methods called and the requests
                   \* sent during the call, in order

runVars == <<pc, step, tool_calls, outputs, finished, ncalls, responses,
             toolPhases, lastNode, fallbacks, input, offered>>

calcVars == <<argument, returned, callee, trace>>

vars == <<mode, messages, uuid, pc, step, tool_calls, outputs, finished, ncalls,
          responses, toolPhases, lastNode, fallbacks, input, offered, argument,
          returned, callee, trace>>

(***************************************************************************)
(* Bounds of the model.                                                    *)
(***************************************************************************)
MaxConv == 3       \* MergeSpec: longest conversation built
MaxBatch == 2      \* MergeSpec: longest batch merged at once
MaxId == 2         \* MergeSpec: explicit message ids are 1..MaxId
MaxIterations == 3 \* Spec: backend invocations the recursion limit leaves room for

(***************************************************************************)
(* Messages.  `id` is None until the reducer assigns a uuid4; an explicit  *)
(* id is given by whoever built the message.  `type` is the message class: *)
(* "human", "ai", "tool", or "remove" (RemoveMessage, a deletion marker    *)
(* that is not a conversation turn).                                       *)
(***************************************************************************)
None == <<>>

Uuid(k) == <<"uuid4", k>>

GivenId(k) == <<"id", k>>

Message(id, type, content, calls, call_id) ==
    [id |-> id, type |-> type, content |-> content, tool_calls |-> calls,
     tool_call_id |-> call_id, name |-> "", status |-> "",
     additional_kwargs |-> {}]

HumanMessage(content) == Message(None, "human", content, <<>>, None)

AIMessage(content) == Message(None, "ai", content, <<>>, None)

RemoveMessage(id) == Message(id, "remove", "", <<>>, None)

ToolMessage(content, name, call_id, status) ==
    [Message(None, "tool", content, <<>>, call_id) EXCEPT
        !.name = name, !.status = status]

ToolCall(id, name) == [id |-> id, name |-> name]

WithId(m, id) == [m EXCEPT !.id = id]

Ids(msgs) == [i \in DOMAIN msgs |-> msgs[i].id]

IdSet(msgs) == {msgs[i].id : i \in DOMAIN msgs}

(***************************************************************************)
(* add_messages, the reducer of State.messages (agent.py:29).              *)
(*   1. every message without an id gets a fresh uuid4 (left, then right); *)
(*   2. right is merged into a copy of left one message at a time: an id   *)
(*      already present replaces that entry in place, a RemoveMessage      *)
(*      marks its id for deletion (ValueError when the id is absent), any  *)
(*      other message is appended;                                         *)
(*   3. the entries marked for deletion are dropped.                       *)
(***************************************************************************)
RECURSIVE AssignIds(_, _)
AssignIds(msgs, n) ==
    IF msgs = <<>> THEN <<>>
    ELSE IF Head(msgs).id = None
         THEN <<WithId(Head(msgs), Uuid(n + 1))>> \o AssignIds(Tail(msgs), n + 1)
         ELSE <<Head(msgs)>> \o AssignIds(Tail(msgs), n)

CountNone(msgs) == Cardinality({i \in DOMAIN msgs : msgs[i].id = None})

\* merged_by_id.get(id): the index of the entry with this id, 0 for no entry
IdIndex(merged, id) ==
    IF \E i \in DOMAIN merged : merged[i].id = id
    THEN CHOOSE i \in DOMAIN merged :
            /\ merged[i].id = id
            /\ \A j \in DOMAIN merged : merged[j].id = id => j <= i
    ELSE 0

DropIds(merged, ids) == SelectSeq(merged, LAMBDA m : m.id \notin ids)

\* mutant: blind concatenation, ids are not looked up
RECURSIVE MergeLoopConcat(_, _, _)
MergeLoopConcat(merged, ids_to_remove, right) ==
    IF right = <<>> THEN [err |-> FALSE, msgs |-> merged]
    ELSE MergeLoopConcat(Append(merged, Head(right)), ids_to_remove, Tail(right))

\* mutant: an upsert that moves the replaced entry to the end
RECURSIVE MergeLoopMoveToEnd(_, _, _)
MergeLoopMoveToEnd(merged, ids_to_remove, right) ==
    IF right = <<>> THEN [err |-> FALSE, msgs |-> merged]
    ELSE MergeLoopMoveToEnd(
            Append(DropIds(merged, {Head(right).id}), Head(right)),
            ids_to_remove, Tail(right))

RECURSIVE MergeLoop(_, _, _)
MergeLoop(merged, ids_to_remove, right) ==
    IF right = <<>>
    THEN [err |-> FALSE, msgs |-> DropIds(merged, ids_to_remove)]
    ELSE LET m == Head(right)
             existing_idx == IdIndex(merged, m.id)
         IN  IF existing_idx # 0
             THEN IF m.type = "remove"
                  THEN MergeLoop(merged, ids_to_remove \cup {m.id}, Tail(right))
                  ELSE MergeLoop([merged EXCEPT ![existing_idx] = m],
                                 ids_to_remove \ {m.id}, Tail(right))
             ELSE IF m.type = "remove"
                  THEN [err |-> TRUE, msgs |-> <<>>]
                  ELSE MergeLoop(Append(merged, m), ids_to_remove, Tail(right))

\* mutant: a channel without reducer, the write replaces the value
add_messages_overwrite(left, right, n) ==
    MergeLoop(<<>>, {}, AssignIds(right, n + CountNone(left)))

add_messages(left, right, n) ==
    MergeLoop(AssignIds(left, n), {}, AssignIds(right, n + CountNone(left)))

\* the uuid4 counter after add_messages(left, right, n)
UuidAfter(left, right, n) == n + CountNone(left) + CountNone(right)

(***************************************************************************)
(* MergeSpec: the reducer applied to batches from a pool.                  *)
(***************************************************************************)
MergeIds == {None} \cup {GivenId(k) : k \in 1..MaxId}

MergePool ==
    {WithId(HumanMessage("a"), id) : id \in MergeIds}
    \cup {WithId(AIMessage("b"), id) : id \in MergeIds}
    \cup {RemoveMessage(GivenId(k)) : k \in 1..MaxId}

Batches ==
    UNION {[1..n -> MergePool] : n \in 0..MaxBatch}

\* an argument that is not a string (an int, None, a list)
NotStrArg == [str |-> FALSE, text |-> <<>>]

\* the tool has not been called
NotCalled == [kind |-> "not_called"]

\* the variables of a tool alone while none is exercised
CalcIdle ==
    /\ argument = NotStrArg
    /\ returned = NotCalled
    /\ callee = "none"
    /\ trace = <<>>

\* the run's variables while the reducer alone is exercised
RunIdle ==
    /\ pc = "start"
    /\ step = 0
    /\ tool_calls = <<>>
    /\ outputs = <<>>
    /\ finished = <<>>
    /\ ncalls = 0
    /\ responses = <<>>
    /\ toolPhases = 0
    /\ lastNode = "none"
    /\ fallbacks = {}
    /\ input = <<>>
    /\ offered = <<>>

MergeInit ==
    /\ mode = "merge"
    /\ messages = <<>>
    /\ uuid = 0
    /\ RunIdle
    /\ CalcIdle

\* one write to the channel: messages = add_messages(messages, batch); a
\* write that raises leaves the channel as it was
Merge(batch) ==
    /\ mode = "merge"
    /\ LET r == add_messages(messages, batch, uuid)
       IN  /\ ~r.err
           /\ Len(r.msgs) <= MaxConv
           /\ messages' = r.msgs
           /\ uuid' = UuidAfter(messages, batch, uuid)
    /\ UNCHANGED <<calcVars, mode, runVars>>

MergeNext == \E batch \in Batches : Merge(batch)

MergeSpec == MergeInit /\ [][MergeNext]_vars

(***************************************************************************)
(* The graph (agent.py:451-467).                                           *)
(*                                                                         *)
(*   START -> chatbot;  chatbot -> tools_condition -> tools | END;         *)
(*   tools -> chatbot.                                                     *)
(*                                                                         *)
(* app.invoke runs it in super-steps: one node per super-step here, its    *)
(* return value written to the channel through add_messages.  The runtime  *)
(* executes at most recursion_limit super-steps; when nodes are still      *)
(* scheduled after that many it raises GraphRecursionError to the caller.  *)
(* No caller in the repository passes a config, so the limit is the        *)
(* runtime's default, 25: chatbot runs in the odd super-steps, tools in    *)
(* the even ones, which leaves room for 13 backend invocations.  The model *)
(* scales this down to MaxIterations invocations.                          *)
(***************************************************************************)
recursion_limit == 2 * MaxIterations - 1

END == "__end__"

\* ToolNode([calculator, web_search]).tools_by_name (agent.py:456)
tools_by_name == {"calculator", "web_search"}

\* mutant: chatbot binds the calculator only
bound_tools_calculator_only == {"calculator"}

\* llm.bind_tools([calculator, web_search]) (agent.py:436)
bound_tools == {"calculator", "web_search"}

Last(msgs) == msgs[Len(msgs)]

\* mutant: the limit is reached one super-step early
AfterSuperstepEarly(next, done) ==
    IF next = END THEN "done"
    ELSE IF done >= recursion_limit - 1 THEN "raised"
    ELSE next

\* mutant: the edge out of chatbot ignores the tool calls
tools_condition_always_end(msgs) == END

\* tools_condition (agent.py:460-463): the last message of the state decides
tools_condition(msgs) ==
    IF msgs # <<>> /\ Last(msgs).type = "ai" /\ Len(Last(msgs).tool_calls) > 0
    THEN "tools"
    ELSE END

\* the runtime after a super-step: `next` is the node the edges schedule,
\* `done` the number of super-steps executed so far
AfterSuperstep(next, done) ==
    IF next = END THEN "done"
    ELSE IF done >= recursion_limit THEN "raised"
    ELSE next

(***************************************************************************)
(* The backend (init_chat_model + bind_tools + invoke, agent.py:433-439)   *)
(* is a black box: an invocation raises, or returns one new AI message     *)
(* with a fresh id, with or without tool calls (fresh call ids).           *)
(***************************************************************************)
Apology == "I apologize, but I'm experiencing technical difficulties."

RunId(k) == <<"run", k>>

CallId(k) == <<"call", k>>

\* the names a response may request, per call list
CallShapes ==
    { <<"calculator">>,
      <<"web_search", "calculator">>,
      <<"unknown_tool", "calculator">> }

FinalContents == {"answer", Apology}

\* mutant: the backend numbers its calls from 1 in every response
CallsOfReusedIds(shape, n) == [i \in DOMAIN shape |-> ToolCall(CallId(i), shape[i])]

CallsOf(shape, n) == [i \in DOMAIN shape |-> ToolCall(CallId(n + i), shape[i])]

\* every message the backend can return at its k-th invocation
BackendResponses(k, n) ==
    {WithId([AIMessage("") EXCEPT !.tool_calls = CallsOf(shape, n)], RunId(k)) :
        shape \in CallShapes}
    \cup {WithId(AIMessage(c), RunId(k)) : c \in FinalContents}

BackendOutcomes(k, n) ==
    {[raised |-> TRUE, response |-> None]}
    \cup {[raised |-> FALSE, response |-> r] : r \in BackendResponses(k, n)}

\* mutant: chatbot without its try/except: the exception leaves the node
chatbot_unguarded(outcome) ==
    IF outcome.raised
    THEN [error |-> TRUE, messages |-> <<>>]
    ELSE [error |-> FALSE, messages |-> <<outcome.response>>]

\* chatbot (agent.py:421-448): the node's return value for a backend outcome
chatbot(outcome) ==
    IF outcome.raised
    THEN [error |-> FALSE, messages |-> <<AIMessage(Apology)>>]
    ELSE [error |-> FALSE, messages |-> <<outcome.response>>]

OutcomeKind(outcome) ==
    IF outcome.raised THEN "failed"
    ELSE IF Len(outcome.response.tool_calls) > 0 THEN "calls"
    ELSE "final"

(***************************************************************************)
(* ToolNode (agent.py:456): the calls of the last AI message are handed to *)
(* a thread pool with executor.map; each call is run by _run_one, which    *)
(* never raises: an unknown name, a returned text and an exception inside  *)
(* the tool's invocation all become a ToolMessage for that call's id.      *)
(***************************************************************************)
InvalidTool == "Error: not a valid tool, try one of [calculator, web_search]."

\* what invoking a registered tool can do: return a text (a result or an
\* "Error: ..." text, both tools catch their own exceptions and return
\* either as their value), or raise in the invocation itself (arguments
\* rejected by the tool's schema)
ToolOutcomes == {"result", "raised"}

\* mutant: the result of a call to an unknown name carries no call id
run_one_unknown_no_id(call, outcome) ==
    IF call.name \notin tools_by_name
    THEN ToolMessage(InvalidTool, call.name, None, "error")
    ELSE ToolMessage(outcome, call.name, call.id,
                     IF outcome = "raised" THEN "error" ELSE "success")

\* mutant: names are not validated, an unknown name is answered like a tool
run_one_no_validation(call, outcome) ==
    ToolMessage(outcome, call.name, call.id,
                IF outcome = "raised" THEN "error" ELSE "success")

\* ToolNode._run_one
run_one(call, outcome) ==
    IF call.name \notin tools_by_name
    THEN ToolMessage(InvalidTool, call.name, call.id, "error")
    ELSE IF outcome = "raised"
         THEN ToolMessage("Error: exception. Please fix your mistakes.",
                          call.name, call.id, "error")
         ELSE ToolMessage(outcome, call.name, call.id, "success")

\* mutant: the outputs are collected as the calls complete
collect_as_completed(outs, order) == [i \in DOMAIN outs |-> outs[order[i]]]

\* [*executor.map(...)]: the outputs in the order of the calls
collect(outs, order) == [i \in DOMAIN outs |-> outs[i]]

(***************************************************************************)
(* Spec: one run of app.invoke.                                            *)
(***************************************************************************)
\* a call id of an earlier run, as a re-supplied conversation carries it
SeedCallId == <<"call", 0>>

\* the conversations callers pass in: none, one user message
\* (test_agent.py:70), a prior history (test_agent.py:119-125), and a prior
\* history that was returned by an earlier run with a tool exchange in it
Seeds ==
    { <<>>,
      <<HumanMessage("hello")>>,
      <<HumanMessage("my name is Alice"), AIMessage("nice to meet you"),
        HumanMessage("what is my name")>>,
      <<WithId(HumanMessage("what is 2 + 2"), GivenId(1)),
        WithId([AIMessage("") EXCEPT
                    !.tool_calls = <<ToolCall(SeedCallId, "calculator")>>],
               GivenId(2)),
        WithId(ToolMessage("4", "calculator", SeedCallId, "success"), GivenId(3)),
        WithId(AIMessage("2 + 2 is 4"), GivenId(4)),
        HumanMessage("and times 3")>> }

Init ==
    /\ mode = "run"
    /\ messages = <<>>
    /\ uuid = 0
    /\ RunIdle
    /\ CalcIdle

\* app.invoke(input): the input is written to the channel, chatbot is scheduled
Invoke(seed) ==
    /\ mode = "run" /\ pc = "start"
    /\ messages' = add_messages(messages, seed, uuid).msgs
    /\ uuid' = UuidAfter(messages, seed, uuid)
    /\ pc' = "chatbot"
    /\ input' = seed
    /\ UNCHANGED <<calcVars, mode, step, tool_calls, outputs, finished, ncalls, responses,
                   toolPhases, lastNode, fallbacks, offered>>

\* a super-step running chatbot, its write and the conditional edge
ChatbotStep(outcome) ==
    /\ mode = "run" /\ pc = "chatbot"
    /\ LET ret == chatbot(outcome)
           merged == add_messages(messages, ret.messages, uuid)
       IN  /\ responses' = Append(responses, OutcomeKind(outcome))
           /\ offered' = Append(offered, bound_tools)
           /\ ncalls' = IF outcome.raised THEN ncalls
                        ELSE ncalls + Len(outcome.response.tool_calls)
           /\ IF ret.error
              THEN /\ pc' = "crashed"
                   /\ UNCHANGED <<messages, uuid, step, lastNode, fallbacks>>
              ELSE /\ messages' = merged.msgs
                   /\ uuid' = UuidAfter(messages, ret.messages, uuid)
                   /\ step' = step + 1
                   /\ lastNode' = "chatbot"
                   /\ fallbacks' = IF outcome.raised
                                   THEN fallbacks \cup {Uuid(uuid + 1)}
                                   ELSE fallbacks
                   /\ pc' = AfterSuperstep(tools_condition(merged.msgs), step + 1)
    /\ UNCHANGED <<calcVars, mode, input, tool_calls, outputs, finished, toolPhases>>

\* a super-step running tools begins: the calls of the last AI message are
\* submitted to the executor
ToolNodeStart ==
    /\ mode = "run" /\ pc = "tools"
    /\ Last(messages).type = "ai"
    /\ tool_calls' = Last(messages).tool_calls
    /\ outputs' = [i \in DOMAIN Last(messages).tool_calls |-> None]
    /\ finished' = <<>>
    /\ pc' = "tools_running"
    /\ UNCHANGED <<calcVars, mode, input, messages, uuid, step, ncalls, responses,
                   toolPhases, lastNode, fallbacks, offered>>

\* one of the submitted calls completes, in any order
RunOne(i, outcome) ==
    /\ mode = "run" /\ pc = "tools_running"
    /\ i \in DOMAIN tool_calls /\ outputs[i] = None
    /\ outputs' = [outputs EXCEPT ![i] = run_one(tool_calls[i], outcome)]
    /\ finished' = Append(finished, i)
    /\ UNCHANGED <<calcVars, mode, input, messages, uuid, pc, step, tool_calls, ncalls,
                   responses, toolPhases, lastNode, fallbacks, offered>>

\* all calls completed: the node returns {"messages": outputs}, the write is
\* merged and the edge tools -> chatbot is followed
ToolNodeFinish ==
    /\ mode = "run" /\ pc = "tools_running"
    /\ Len(finished) = Len(tool_calls)
    /\ LET outs == collect(outputs, finished)
       IN  /\ messages' = add_messages(messages, outs, uuid).msgs
           /\ uuid' = UuidAfter(messages, outs, uuid)
    /\ step' = step + 1
    /\ toolPhases' = toolPhases + 1
    /\ lastNode' = "tools"
    /\ pc' = AfterSuperstep("chatbot", step + 1)
    /\ UNCHANGED <<calcVars, mode, input, tool_calls, outputs, finished, ncalls, responses,
                   fallbacks, offered>>

Next ==
    \/ \E seed \in Seeds : Invoke(seed)
    \/ \E outcome \in BackendOutcomes(Len(responses) + 1, ncalls) : ChatbotStep(outcome)
    \/ ToolNodeStart
    \/ \E i \in DOMAIN tool_calls, outcome \in ToolOutcomes : RunOne(i, outcome)
    \/ ToolNodeFinish

Spec == Init /\ [][Next]_vars

\* the runtime keeps stepping a run that has a step to take
FairSpec == Spec /\ WF_vars(Next)

(***************************************************************************)
(* Claims about the reducer (MergeSpec): in every conversation the reducer *)
(* can build, for every batch of the pool.  A conversation turn is a       *)
(* human, ai or tool message; RemoveMessage is a deletion marker, not a    *)
(* turn.                                                                   *)
(***************************************************************************)
IsTurns(msgs) == \A i \in DOMAIN msgs : msgs[i].type # "remove"

CarryIds(msgs) == \A i \in DOMAIN msgs : msgs[i].id # None

TurnBatches == {b \in Batches : IsTurns(b)}

LastWithId(msgs, id) == msgs[IdIndex(msgs, id)]

FirstIndex(msgs, id) ==
    CHOOSE i \in DOMAIN msgs :
        /\ msgs[i].id = id
        /\ \A j \in DOMAIN msgs : msgs[j].id = id => i <= j

\* C9: merging the same batch of id-carrying turns a second time changes
\* nothing: add_messages(add_messages(C, M), M) = add_messages(C, M).
C9_MergeIdempotent ==
    mode = "merge" =>
        \A M \in TurnBatches :
            CarryIds(M) =>
                LET once == add_messages(messages, M, uuid)
                    twice == add_messages(once.msgs, M, uuid)
                IN  ~once.err /\ ~twice.err /\ twice.msgs = once.msgs

\* a conversation and a batch of two ids: one new (appended by the first
\* merge, replaced by the second), one present with another content
C9_Witness ==
    /\ mode = "merge"
    /\ \E M \in TurnBatches :
          /\ CarryIds(M)
          /\ \E i \in DOMAIN M : M[i].id \notin IdSet(messages)
          /\ \E i \in DOMAIN M, k \in DOMAIN messages :
                M[i].id = messages[k].id /\ M[i] # messages[k]

\* what an upsert of batch M (ids assigned: B) makes of conversation C
IsUpsert(C, B, R) ==
    /\ Len(R) = Len(C) + Cardinality(IdSet(B) \ IdSet(C))
    /\ \A i \in DOMAIN C :
          /\ R[i].id = C[i].id
          /\ R[i] = IF C[i].id \in IdSet(B) THEN LastWithId(B, C[i].id) ELSE C[i]
    /\ \A k \in (Len(C) + 1)..Len(R) :
          /\ R[k].id \in IdSet(B) \ IdSet(C)
          /\ R[k] = LastWithId(B, R[k].id)
          /\ \A l \in (Len(C) + 1)..(k - 1) :
                FirstIndex(B, R[l].id) < FirstIndex(B, R[k].id)

\* C10: a merge of turns is an upsert by id: an incoming message whose id is
\* already present replaces that entry at its position, any other incoming
\* message is added at the end in batch order; the ids of the old
\* conversation are a prefix of the ids of the new one and the length grows
\* by the number of distinct new ids.
C10_UpsertById ==
    mode = "merge" =>
        \A M \in TurnBatches :
            LET r == add_messages(messages, M, uuid)
            IN  ~r.err /\ IsUpsert(messages, AssignIds(M, uuid), r.msgs)

\* a conversation of two or more entries and a batch that replaces the first
\* entry with another content and adds one entry
C10_Witness ==
    /\ mode = "merge"
    /\ Len(messages) >= 2
    /\ \E M \in TurnBatches :
          LET r == add_messages(messages, M, uuid)
          IN  /\ r.msgs[1] # messages[1]
              /\ Len(r.msgs) = Len(messages) + 1

(***************************************************************************)
(* Claims about a run (Spec, FairSpec).                                    *)
(***************************************************************************)
Running == mode = "run"

Terminal == pc \in {"done", "raised", "crashed"}

AlwaysCalls == \A i \in DOMAIN responses : responses[i] = "calls"

NoFailure == \A i \in DOMAIN responses : responses[i] # "failed"

\* the tool-role messages that answer call id `id`
ResultsFor(id) ==
    {j \in DOMAIN messages :
        messages[j].type = "tool" /\ messages[j].tool_call_id = id}

\* a tools super-step has completed and no later one is running:
\* tool_calls and finished describe the last completed phase
PhaseDone == toolPhases >= 1 /\ pc # "tools_running"

\* C1: with a backend that requests a call in every response, the run makes
\* exactly MaxIterations backend invocations and ends in the terminal state
\* FAILED with a terminal message about the cap as last message; it does not
\* raise to the caller.
C1_CapEndsInFailed ==
    (Running /\ Terminal /\ AlwaysCalls) =>
        /\ pc = "failed"
        /\ Len(responses) = MaxIterations
        /\ Last(messages).type = "ai"
        /\ Last(messages).content = "loop bound exceeded"

\* C2: every run ends; it ends by the recursion limit only when each of the
\* MaxIterations responses requested calls; and a run without backend failure
\* whose k-th response is the first without calls has ended in "done" after
\* exactly k backend invocations and k - 1 tools phases.
C2_DoneAtFirstFinal ==
    /\ <>(pc \in {"done", "raised"})
    /\ [](pc = "raised" => AlwaysCalls /\ Len(responses) = MaxIterations)
    /\ [](\A k \in DOMAIN responses :
            (responses[k] = "final" /\ NoFailure) =>
                /\ pc = "done"
                /\ k = Len(responses) /\ k <= MaxIterations
                /\ \A i \in 1..(k - 1) : responses[i] = "calls"
                /\ toolPhases = k - 1
                /\ step = 2 * k - 1)

\* the last response the limit allows is the first one without calls
C2_Witness ==
    /\ Running /\ pc = "done"
    /\ Len(responses) = MaxIterations
    /\ responses[MaxIterations] = "final"

\* C3: when a backend invocation fails, chatbot does not raise: the run has
\* ended in "done", the failed invocation is the last one, and the
\* conversation ends with the one synthesized message: an AI message with the
\* apology as content and no tool calls.
C3_BackendFailureDegrades ==
    (Running /\ ~NoFailure) =>
        /\ pc = "done"
        /\ responses[Len(responses)] = "failed"
        /\ \A i \in 1..(Len(responses) - 1) : responses[i] # "failed"
        /\ Cardinality(fallbacks) = 1
        /\ {j \in DOMAIN messages : messages[j].id \in fallbacks} = {Len(messages)}
        /\ Last(messages).type = "ai"
        /\ Last(messages).content = Apology
        /\ Last(messages).tool_calls = <<>>

\* the backend fails at its second invocation, after a tools phase
C3_Witness ==
    /\ Running /\ pc = "done"
    /\ responses = <<"calls", "failed">>
    /\ toolPhases = 1

\* what a caller can see of a message besides its id
Observable(m) == [m EXCEPT !.id = None]

\* C4: a synthesized message differs, in some field other than its id, from
\* every message the backend can return.
C4_FallbackDistinguishable ==
    Running =>
        \A j \in DOMAIN messages :
            messages[j].id \in fallbacks =>
                \A k \in 1..MaxIterations :
                    \A r \in BackendResponses(k, 0) :
                        Observable(r) # Observable(messages[j])

\* the routing after a chatbot super-step, with what the limit does to it
RoutedByCalls(atLimit) ==
    /\ (lastNode = "chatbot" /\ Last(messages).tool_calls = <<>>) => pc = "done"
    /\ (lastNode = "chatbot" /\ Last(messages).tool_calls # <<>>) =>
          \/ pc \in {"tools", "tools_running"}
          \/ atLimit /\ pc = "raised" /\ step = recursion_limit
    /\ pc \in {"tools", "tools_running"} =>
          \E a \in DOMAIN messages :
              /\ messages[a].type = "ai" /\ messages[a].tool_calls # <<>>
              /\ \A b \in (a + 1)..Len(messages) : messages[b].type # "ai"
    /\ pc = "done" =>
          Last(messages).type = "ai" /\ Last(messages).tool_calls = <<>>
    /\ (lastNode = "tools" /\ pc # "tools_running") => pc = "chatbot"

C6_EveryCallAnswered ==
    (Running /\ pc = "chatbot" /\ Len(responses) >= 1) =>
        \A a \in DOMAIN messages :
            \A c \in DOMAIN messages[a].tool_calls :
                /\ Cardinality(ResultsFor(messages[a].tool_calls[c].id)) = 1
                /\ \A j \in ResultsFor(messages[a].tool_calls[c].id) : j > a

\* before the third invocation: a returned text, an exception and an unknown
\* name have all been answered
C6_Witness ==
    /\ Running /\ pc = "chatbot" /\ Len(responses) = 2
    /\ \A c \in {"result", InvalidTool} :
          \E j \in DOMAIN messages : messages[j].type = "tool" /\ messages[j].content = c
    /\ \E j \in DOMAIN messages :
          /\ messages[j].type = "tool" /\ messages[j].status = "error"
          /\ messages[j].name \in tools_by_name

\* C7: after a tools phase the tool messages follow the AI message that
\* requested them in the order of its calls, whatever the completion order.
C7_ResultsInRequestOrder ==
    (Running /\ PhaseDone) =>
        \E a \in DOMAIN messages :
            /\ messages[a].type = "ai" /\ messages[a].tool_calls = tool_calls
            /\ a + Len(tool_calls) <= Len(messages)
            /\ \A i \in DOMAIN tool_calls :
                  /\ messages[a + i].type = "tool"
                  /\ messages[a + i].tool_call_id = tool_calls[i].id

\* a phase whose second call completed before its first
C7_Witness == Running /\ PhaseDone /\ finished = <<2, 1>>

\* C8: a call to a name that is not registered does not raise: after the
\* phase the conversation holds one tool message for it, with the invalid-tool
\* notice and the call's id, the other calls of the message are answered by
\* one tool message each, and chatbot runs next.
C8_UnknownToolAnswered ==
    (Running /\ PhaseDone) =>
        /\ pc # "crashed"
        /\ lastNode = "tools" => pc = "chatbot"
        /\ \A i \in DOMAIN tool_calls :
              /\ Cardinality(ResultsFor(tool_calls[i].id)) = 1
              /\ \A j \in ResultsFor(tool_calls[i].id) :
                    IF tool_calls[i].name \in tools_by_name
                    THEN messages[j].content # InvalidTool
                    ELSE /\ messages[j].content = InvalidTool
                         /\ messages[j].status = "error"

\* a phase with an unknown name and a registered one has completed
C8_Witness ==
    /\ Running /\ PhaseDone /\ lastNode = "tools" /\ pc = "chatbot"
    /\ Len(tool_calls) = 2
    /\ tool_calls[1].name \notin tools_by_name
    /\ tool_calls[2].name \in tools_by_name

(***************************************************************************)
(* Claims about what the reducer and the run keep true of the conversation *)
(***************************************************************************)
\* the call ids emitted by the AI messages before position j
CallIdsBefore(msgs, j) ==
    UNION {{msgs[a].tool_calls[c].id : c \in DOMAIN msgs[a].tool_calls} :
              a \in {b \in 1..(j - 1) : msgs[b].type = "ai"}}

\* tool results for calls that no conversation of the reducer's pool holds
OrphanResults ==
    {ToolMessage("4", "calculator", CallId(k), "success") : k \in 1..MaxId}

\* C11: appending a tool message whose tool_call_id matches no call id of
\* the conversation fails and leaves the conversation as it was.
C11_OrphanRejected ==
    (mode = "merge") =>
        \A t \in OrphanResults : add_messages(messages, <<t>>, uuid).err

\* every (message, call) position of a conversation
CallPositions(msgs) ==
    UNION {{<<a, c>> : c \in DOMAIN msgs[a].tool_calls} : a \in DOMAIN msgs}

Generated == SubSeq(messages, Len(input) + 1, Len(messages))

\* C13: from the first write on, the caller's messages (with the ids the
\* reducer gave to those that had none) are the prefix of the conversation,
\* in their order; what follows is what the run generated, one AI message
\* per backend invocation and tool messages for its calls; a run that
\* returns has added at least one message.
C13_InputIsPrefix ==
    (Running /\ pc # "start") =>
        /\ Len(messages) >= Len(input)
        /\ SubSeq(messages, 1, Len(input)) = AssignIds(input, 0)
        /\ \A i \in DOMAIN Generated : Generated[i].type \in {"ai", "tool"}
        /\ Len(SelectSeq(Generated, LAMBDA m : m.type = "ai")) = Len(responses)
        /\ \A i \in DOMAIN Generated :
              Generated[i].type = "tool" =>
                  \E k \in 1..ncalls : Generated[i].tool_call_id = CallId(k)
        /\ (pc = "done" => Len(messages) > Len(input))

\* a prior history was passed in and the run returned after a tools phase
C13_Witness ==
    /\ Running /\ pc = "done" /\ toolPhases >= 1
    /\ Len(input) >= 3
    /\ Len(messages) >= Len(input) + 3

\* C14: every run ends with a non-empty conversation whose last message has
\* content and is an AI message without tool calls, never a tool message or
\* an AI message with unanswered calls.
C14_EndsWellFormed ==
    (Running /\ Terminal) =>
        /\ messages # <<>>
        /\ Last(messages).type = "ai"
        /\ Last(messages).tool_calls = <<>>
        /\ Last(messages).content # ""

\* C15: when the deadline of a backend call expires (the invocation raises)
\* the run goes to FAILED with a terminal failure message.
C15_ExpiryEndsInFailed ==
    Running =>
        \A k \in DOMAIN responses : responses[k] = "failed" => pc = "failed"

(***************************************************************************)
(* The calculator tool (agent.py:32-188).                                  *)
(*                                                                         *)
(* Python numbers.  A real number is n/d * 10^e in canonical form (n and d *)
(* coprime, d > 0 coprime to 10, n not divisible by 10; zero is 0/1 *      *)
(* 10^0: every rational has one such form), so that                        *)
(* 1000 ** 5 and 1e15 are the same value and magnitudes far beyond the     *)
(* machine word of the checker can be compared.  `t` is the Python type:   *)
(* "bool" and "int" (exact), "float", "complex" (n + im*j, Gaussian        *)
(* integers only), "str" (a string constant).  Arithmetic whose mantissa   *)
(* leaves -MaxMantissa..MaxMantissa, or whose result is irrational, is     *)
(* outside the model: the operators return OutOfModel and the inputs that  *)
(* lead there are not drawn.                                               *)
(***************************************************************************)
MaxMantissa == 1000000000

Abs(n) == IF n < 0 THEN -n ELSE n

Sign(n) == IF n < 0 THEN -1 ELSE IF n > 0 THEN 1 ELSE 0

Min(a, b) == IF a < b THEN a ELSE b

RECURSIVE GCD(_, _)
GCD(a, b) == IF b = 0 THEN a ELSE GCD(b, a % b)

\* 10^k for the k the model computes with
RECURSIVE Pow10(_)
Pow10(k) == IF k = 0 THEN 1 ELSE 10 * Pow10(k - 1)

\* how often 10 divides n (n # 0)
RECURSIVE Tens(_)
Tens(n) == IF n % 10 = 0 THEN 1 + Tens(n \div 10) ELSE 0

\* `exact`: the Python object is this number; a float that is not `exact`
\* is the double next to it.  `edge`: the value is the remainder of a float
\* modulo whose quotient is a whole number only in exact arithmetic.
Value(t, n, d, e, im) ==
    [t |-> t, n |-> n, d |-> d, e |-> e, im |-> im, exact |-> TRUE, edge |-> "none"]

\* how often p divides m (m > 0)
RECURSIVE Count(_, _)
Count(p, m) == IF m % p = 0 THEN 1 + Count(p, m \div p) ELSE 0

RECURSIVE Pow(_, _)
Pow(m, k) == IF k = 0 THEN 1 ELSE m * Pow(m, k - 1)

\* m/d * 10^e with d coprime to 10: the tens of m go to the exponent
TrimTens(t, m, d, e, k) ==
    Value(t, Sign(m) * (Abs(m) \div Pow10(k)), d, e + k, 0)

\* a mantissa the model does not hold
TooWide(t, e) == Value(t, MaxMantissa + 1, 1, e, 0)

\* n * f / d * 10^e with f = 5^i * 2^j
Scaled(t, n, d, e, f) ==
    IF f > MaxMantissa THEN TooWide(t, e)
    ELSE IF Abs(n) > MaxMantissa \div f THEN TooWide(t, e)
    ELSE TrimTens(t, n * f, d, e, Tens(Abs(n * f)))

\* n/d * 10^e in lowest terms, i twos and j fives in d: they go to the
\* exponent
Decimal(t, n, d, e, i, j) ==
    IF i > 13 THEN TooWide(t, e)
    ELSE Scaled(t, n, d \div (Pow(2, i) * Pow(5, j)), e - i - j,
                IF Pow(5, i) > MaxMantissa \div Pow(2, j) THEN MaxMantissa + 1
                ELSE Pow(5, i) * Pow(2, j))

Lowest(t, n, d, e, g) ==
    Decimal(t, Sign(n) * (Abs(n) \div g), d \div g, e,
            Count(2, d \div g), Count(5, d \div g))

\* the canonical form of n/d * 10^e (0 < d <= MaxMantissa, n fits)
Real(t, n, d, e) ==
    IF n = 0 THEN Value(t, 0, 1, 0, 0)
    ELSE Lowest(t, n, d, e, GCD(Abs(n), d))

PyInt(n) == Real("int", n, 1, 0)

PyBool(b) == Value("bool", IF b THEN 1 ELSE 0, 1, 0, 0)

\* the real v is a double: a dyadic rational of few bits.  Every double the
\* model meets that fails this test is a rounded one.
ExactFloat(v) ==
    /\ v.d = 1
    /\ IF v.e >= 0 THEN v.e <= 6
       ELSE -v.e <= 13 /\ v.n % Pow(5, -v.e) = 0

\* float(x) of an int or a float is x itself
ExactOperand(a) == IF a.t = "float" THEN a.exact ELSE ExactFloat(a)

\* the float literal n/d
PyFloat(n, d) == [Real("float", n, d, 0) EXCEPT !.exact = ExactFloat(Real("float", n, d, 0))]

PyComplex(re, im) == Value("complex", re, 1, 0, im)

PyStr == Value("str", 0, 1, 0, 0)

\* a complex number the model does not compute (the value of a complex
\* division or power)
SomeComplex == [Value("complex", 0, 1, 0, 0) EXCEPT !.exact = FALSE]

\* isinstance(x, (int, float, complex)); bool is a subclass of int
IsNumeric(x) == x.t \in {"bool", "int", "float", "complex"}

\* x == 0
IsZero(x) == x.n = 0 /\ x.im = 0 /\ x.exact

\* what evaluating a node gives: a value, None, an exception, or a value the
\* model does not represent
Ok(v) == [k |-> "value", exc |-> "", v |-> v]

ReturnNone == [k |-> "none", exc |-> "", v |-> PyStr]

Raise(exc) == [k |-> "raise", exc |-> exc, v |-> PyStr]

OutOfModel == [k |-> "out_of_model", exc |-> "", v |-> PyStr]

\* saturating arithmetic on mantissas: Over stands for "does not fit"
Over == MaxMantissa + 1

SatMul(x, y) ==
    IF x = 0 \/ y = 0 THEN 0
    ELSE IF Abs(x) > MaxMantissa \/ Abs(y) > MaxMantissa THEN Over
    ELSE IF Abs(x) > MaxMantissa \div Abs(y) THEN Over
    ELSE x * y

SatAdd(x, y) ==
    IF Abs(x) > MaxMantissa \/ Abs(y) > MaxMantissa THEN Over
    ELSE IF Abs(x + y) > MaxMantissa THEN Over
    ELSE x + y

SatPow10(k) == IF k > 9 THEN Over ELSE Pow10(k)

RECURSIVE SatPow(_, _)
SatPow(m, k) ==
    IF k = 0 THEN 1
    ELSE IF m = 0 THEN 0
    ELSE IF m = 1 THEN 1
    ELSE IF m = -1 THEN (IF k % 2 = 0 THEN 1 ELSE -1)
    ELSE IF k > 30 THEN Over
    ELSE SatMul(m, SatPow(m, k - 1))

Fits(x) == Abs(x) <= MaxMantissa

\* the type of the result of a binary operation on reals
Wider(a, b) == IF a.t = "float" \/ b.t = "float" THEN "float" ELSE "int"

\* floats: the model keeps clear of the edges of the double range (1.8e308,
\* 4.9e-324); a result below the range is 0.0
FloatMaxExp == 300
FloatOverExp == 320
FloatUnderExp == 340

Ranged(t, v, beyond) ==
    IF ~Fits(v.n) THEN OutOfModel
    ELSE IF t # "float" THEN Ok(v)
    ELSE IF v.e >= FloatOverExp THEN beyond
    ELSE IF v.e > FloatMaxExp THEN OutOfModel
    ELSE IF v.e <= -FloatUnderExp THEN Ok(Value("float", 0, 1, 0, 0))
    ELSE IF v.e < -FloatMaxExp THEN OutOfModel
    ELSE Ok(v)

\* a real result of type t with mantissa n/d and exponent e, if the model
\* holds it; a float beyond the double range is `beyond`
Result(t, n, d, e, beyond) ==
    IF ~Fits(n) \/ ~Fits(d) THEN OutOfModel
    ELSE Ranged(t, Real(t, n, d, e), beyond)

\* an int operand meeting a float is converted first: OverflowError when it
\* is too large
TooLargeForFloat(a, b) ==
    \/ a.t = "float" /\ b.t # "float" /\ b.e >= FloatOverExp
    \/ b.t = "float" /\ a.t # "float" /\ a.e >= FloatOverExp

Unsure(a, b) ==
    \/ a.t = "float" /\ b.t # "float" /\ b.e > FloatMaxExp /\ b.e < FloatOverExp
    \/ b.t = "float" /\ a.t # "float" /\ a.e > FloatMaxExp /\ a.e < FloatOverExp

\* abs(x) > c for a real x and a natural c
AbsGreater(x, c) ==
    IF x.e >= 0
    THEN SatMul(Abs(x.n), SatPow10(x.e)) > SatMul(c, x.d)
    ELSE Abs(x.n) > SatMul(SatMul(c, x.d), SatPow10(-(x.e)))

\* left + right on reals
RealAdd(a, b) ==
    IF TooLargeForFloat(a, b) THEN Raise("OverflowError")
    ELSE IF Unsure(a, b) THEN OutOfModel
    ELSE LET e == Min(a.e, b.e)
             na == SatMul(SatMul(a.n, SatPow10(a.e - e)), b.d)
             nb == SatMul(SatMul(b.n, SatPow10(b.e - e)), a.d)
         IN  Result(Wider(a, b), SatAdd(na, nb), SatMul(a.d, b.d), e, OutOfModel)

Neg(a) == [a EXCEPT !.n = -a.n, !.im = -a.im,
                    !.t = IF a.t = "bool" THEN "int" ELSE a.t]

Pos(a) == [a EXCEPT !.t = IF a.t = "bool" THEN "int" ELSE a.t]

\* left * right on reals
RealMul(a, b) ==
    IF TooLargeForFloat(a, b) THEN Raise("OverflowError")
    ELSE IF Unsure(a, b) THEN OutOfModel
    ELSE Result(Wider(a, b), SatMul(a.n, b.n), SatMul(a.d, b.d), a.e + b.e, OutOfModel)

\* left / right on reals, right # 0: always a float
RealDiv(a, b) ==
    IF TooLargeForFloat(a, b) THEN Raise("OverflowError")
    ELSE IF Unsure(a, b) THEN OutOfModel
    ELSE Result("float", SatMul(SatMul(a.n, b.d), Sign(b.n)),
                SatMul(a.d, Abs(b.n)), a.e - b.e, Raise("OverflowError"))

\* floor(n/d * 10^e), or Over
Floor(n, d, e) ==
    IF e >= 0
    THEN LET m == SatMul(n, SatPow10(e))
         IN  IF Fits(m) THEN m \div d ELSE Over
    ELSE LET dd == SatMul(d, SatPow10(-e))
         IN  IF Fits(dd) THEN n \div dd ELSE Over

\* a local variable of the code: the body F with the value v bound
With(v, F(_)) == F(v)

\* a residue a * 2^-53 stays below 1e-15 while abs(a) <= ResidueSafe
ResidueSafe == 9

\* the remainder of a float modulo whose exact quotient is a whole number,
\* with a rounded operand: fmod works on the doubles, whose quotient lies
\* just below the whole number (the remainder is just under b) or just
\* above it (the remainder is a residue of the rounding)
ModEdge(a, b) ==
    IF ~ExactOperand(a) /\ ~ExactOperand(b) THEN OutOfModel
    ELSE Ok([b EXCEPT !.t = "float", !.exact = FALSE,
                      !.edge = IF AbsGreater(a, ResidueSafe) THEN "any" ELSE "small"])

\* left % right on reals, right # 0: left - right * floor(left / right)
RealMod(a, b) ==
    IF TooLargeForFloat(a, b) THEN Raise("OverflowError")
    ELSE IF Unsure(a, b) THEN OutOfModel
    ELSE With(RealDiv([a EXCEPT !.t = "int"], [b EXCEPT !.t = "int"]), LAMBDA q :
             IF q.k # "value" THEN OutOfModel
             ELSE With(Floor(q.v.n, q.v.d, q.v.e), LAMBDA f :
                      IF ~Fits(f) THEN OutOfModel
                      ELSE With(RealMul([b EXCEPT !.t = "int"], PyInt(f)), LAMBDA bf :
                               IF bf.k # "value" THEN OutOfModel
                               ELSE With(RealAdd([a EXCEPT !.t = "int"], Neg(bf.v)), LAMBDA r :
                                        IF r.k # "value" THEN OutOfModel
                                        ELSE IF /\ Wider(a, b) = "float"
                                                /\ r.v.n = 0 /\ a.n # 0
                                                /\ ~(ExactOperand(a) /\ ExactOperand(b))
                                             THEN ModEdge(a, b)
                                        ELSE Ok([r.v EXCEPT !.t = Wider(a, b)])))))

\* the integer a real stands for, when it is one the model can count with
IsSmallInteger(x) == x.d = 1 /\ x.e >= 0 /\ x.e <= 3 /\ Fits(SatMul(x.n, SatPow10(x.e)))

AsInteger(x) == x.n * Pow10(x.e)

\* left ** right on reals
RealPow(a, b) ==
    IF TooLargeForFloat(a, b) THEN Raise("OverflowError")
    ELSE IF Unsure(a, b) THEN OutOfModel
    ELSE IF ~IsSmallInteger([b EXCEPT !.n = Abs(b.n)]) THEN OutOfModel
    ELSE LET k == AsInteger(b)
             t == IF k < 0 THEN "float" ELSE Wider(a, b)
         IN  IF k >= 0
             THEN Result(t, SatPow(a.n, k), SatPow(a.d, k), a.e * k,
                         Raise("OverflowError"))
             ELSE IF a.n = 0 THEN Raise("ZeroDivisionError")
             ELSE Result(t, SatMul(SatPow(a.d, -k), SatPow(Sign(a.n), -k)),
                         SatPow(Abs(a.n), -k), a.e * k, Raise("OverflowError"))

\* arithmetic with a complex operand: sums, differences and products of
\* Gaussian integers are computed, quotients and powers are SomeComplex
IsGaussian(x) ==
    /\ x.exact
    /\ \/ x.t = "complex"
       \/ x.d = 1 /\ x.e >= 0 /\ x.e <= 3

Re(x) == IF x.t = "complex" THEN x.n ELSE x.n * Pow10(x.e)

ComplexOp(op, a, b) ==
    IF ~IsGaussian(a) \/ ~IsGaussian(b) THEN OutOfModel
    ELSE IF op = "Add" THEN Ok(PyComplex(Re(a) + Re(b), a.im + b.im))
    ELSE IF op = "Sub" THEN Ok(PyComplex(Re(a) - Re(b), a.im - b.im))
    ELSE IF op = "Mult"
         THEN Ok(PyComplex(Re(a) * Re(b) - a.im * b.im, Re(a) * b.im + a.im * Re(b)))
    ELSE IF op = "Div" THEN Ok(SomeComplex)
    ELSE IF op = "Mod" THEN Raise("TypeError")
    ELSE \* Pow
         IF IsZero(b) THEN Ok(PyComplex(1, 0))
         ELSE IF IsZero(a)
              THEN IF b.im # 0 \/ b.n < 0 THEN Raise("ZeroDivisionError")
                   ELSE Ok(PyComplex(0, 0))
         ELSE IF b.t = "complex" THEN Ok(SomeComplex)
         \* a power beyond the double range is an OverflowError
         ELSE IF (Abs(a.n) >= 10 \/ Abs(a.im) >= 10) /\ b.n > 0 /\ AbsGreater(b, FloatOverExp)
              THEN Raise("OverflowError")
         ELSE IF (Abs(a.n) >= 2 \/ Abs(a.im) >= 2) /\ AbsGreater(b, 100) THEN OutOfModel
         ELSE Ok(SomeComplex)

\* a float result is the double next to the number computed: it is that
\* number when the operands were and it is a double
Rounded(r, a, b) ==
    IF r.k # "value" THEN r
    ELSE IF r.v.t # "float" \/ r.v.edge # "none" THEN r
    ELSE Ok([r.v EXCEPT !.exact = ExactOperand(a) /\ ExactOperand(b) /\ ExactFloat(r.v)])

RealOp(op, a, b) ==
    IF op = "Add" THEN RealAdd(a, b)
    ELSE IF op = "Sub" THEN RealAdd(a, Neg(b))
    ELSE IF op = "Mult" THEN RealMul(a, b)
    ELSE IF op = "Div" THEN RealDiv(a, b)
    ELSE IF op = "Mod" THEN RealMod(a, b)
    ELSE RealPow(a, b)

\* the Python operators of _safe_eval_math_ast applied to two numbers
Arith(op, a, b) ==
    IF a.edge # "none" \/ b.edge # "none" THEN OutOfModel
    ELSE IF a.t = "complex" \/ b.t = "complex" THEN ComplexOp(op, a, b)
    ELSE Rounded(RealOp(op, a, b), a, b)

(***************************************************************************)
(* The expression tree (ast): <<"Constant", value>>, <<"Name", id>>,       *)
(* <<"Call", func, arg>>, <<"BinOp", op, left, right>>,                    *)
(* <<"UnaryOp", op, operand>>; op is the name of the ast operator class.   *)
(***************************************************************************)
Constant(v) == <<"Constant", v>>

Name(id) == <<"Name", id>>

Call(func, arg) == <<"Call", func, arg>>

BinOp(op, left, right) == <<"BinOp", op, left, right>>

UnaryOp(op, operand) == <<"UnaryOp", op, operand>>

\* the exponent bound of the Pow branch
MaxExponent == 1000

\* the operator chain of the BinOp branch (agent.py:144-165) on two numbers
binop(op, left, right) ==
    IF op = "Add" THEN Arith(op, left, right)
    ELSE IF op = "Sub" THEN Arith(op, left, right)
    ELSE IF op = "Mult" THEN Arith(op, left, right)
    ELSE IF op = "Div"
         THEN IF IsZero(right) THEN Raise("ZeroDivisionError")
              ELSE Arith(op, left, right)
    ELSE IF op = "Pow"
         THEN IF right.t # "complex" /\ AbsGreater(right, MaxExponent)
              THEN Raise("OverflowError")
              ELSE Arith(op, left, right)
    ELSE IF op = "Mod"
         THEN IF IsZero(right) THEN Raise("ZeroDivisionError")
              ELSE Arith(op, left, right)
    ELSE ReturnNone

\* mutant: the BinOp branch returns None for a left operand that is None
\* before it evaluates the right operand
RECURSIVE safe_eval_none_first(_)
safe_eval_none_first(node) ==
    IF node[1] = "Constant"
    THEN IF IsNumeric(node[2]) THEN Ok(node[2]) ELSE ReturnNone
    ELSE IF node[1] = "BinOp"
    THEN With(safe_eval_none_first(node[3]), LAMBDA left :
             IF left.k \in {"raise", "out_of_model", "none"} THEN left
             ELSE With(safe_eval_none_first(node[4]), LAMBDA right :
                      IF right.k \in {"raise", "out_of_model", "none"} THEN right
                      ELSE binop(node[2], left.v, right.v)))
    ELSE IF node[1] = "UnaryOp"
    THEN With(safe_eval_none_first(node[3]), LAMBDA operand :
             IF operand.k # "value" THEN operand
             ELSE IF node[2] = "UAdd" THEN Ok(Pos(operand.v))
             ELSE IF node[2] = "USub" THEN Ok(Neg(operand.v))
             ELSE ReturnNone)
    ELSE ReturnNone

\* _safe_eval_math_ast (agent.py:100-188)
RECURSIVE safe_eval_math_ast(_)
safe_eval_math_ast(node) ==
    IF node[1] = "Constant"
    THEN IF IsNumeric(node[2]) THEN Ok(node[2]) ELSE ReturnNone
    ELSE IF node[1] = "BinOp"
    THEN With(safe_eval_math_ast(node[3]), LAMBDA left :
             IF left.k \in {"raise", "out_of_model"} THEN left
             ELSE With(safe_eval_math_ast(node[4]), LAMBDA right :
                      IF right.k \in {"raise", "out_of_model"} THEN right
                      ELSE IF left.k = "none" \/ right.k = "none" THEN ReturnNone
                      ELSE binop(node[2], left.v, right.v)))
    ELSE IF node[1] = "UnaryOp"
    THEN With(safe_eval_math_ast(node[3]), LAMBDA operand :
             IF operand.k # "value" THEN operand
             ELSE IF node[2] = "UAdd" THEN Ok(Pos(operand.v))
             ELSE IF node[2] = "USub" THEN Ok(Neg(operand.v))
             ELSE ReturnNone)
    ELSE ReturnNone

(***************************************************************************)
(* The text of an expression is a sequence of tokens: <<"NUMBER", value>>, *)
(* <<"NAME", fragments>>, <<"STRING", fragments>>, <<"OP", symbol>> and    *)
(* <<"SPACE", " ">>.  A name or string is spelled as a sequence of         *)
(* fragments, so that `pattern in expression.lower()` can be decided.      *)
(* ast.parse(expression, mode='eval') (agent.py:62) is Python's expression *)
(* grammar on these tokens:                                                *)
(*    xor_expr: arith ('^' arith)*                                         *)
(*    arith:    term (('+'|'-') term)*                                     *)
(*    term:     factor (('*'|'/'|'//'|'%') factor)*                        *)
(*    factor:   ('+'|'-'|'~') factor | power                               *)
(*    power:    primary ['**' factor]                                      *)
(*    primary:  atom ('(' [xor_expr] ')')*                                 *)
(*    atom:     NUMBER | NAME | STRING+ | '(' xor_expr ')'                 *)
(***************************************************************************)
Number(v) == <<"NUMBER", v>>

Ident(fragments) == <<"NAME", fragments>>

String(fragments) == <<"STRING", fragments>>

Op(symbol) == <<"OP", symbol>>

Space == <<"SPACE", " ">>

IsOp(tokens, symbols) ==
    tokens # <<>> /\ Head(tokens)[1] = "OP" /\ Head(tokens)[2] \in symbols

\* the ast operator class of an operator symbol
BinOpOf(symbol) ==
    CASE symbol = "+" -> "Add"
      [] symbol = "-" -> "Sub"
      [] symbol = "*" -> "Mult"
      [] symbol = "/" -> "Div"
      [] symbol = "//" -> "FloorDiv"
      [] symbol = "%" -> "Mod"
      [] symbol = "**" -> "Pow"
      [] symbol = "^" -> "BitXor"

UnaryOpOf(symbol) ==
    CASE symbol = "+" -> "UAdd"
      [] symbol = "-" -> "USub"
      [] symbol = "~" -> "Invert"

Parsed(tree, rest) == [ok |-> TRUE, tree |-> tree, rest |-> rest]

NoParse == [ok |-> FALSE, tree |-> <<>>, rest |-> <<>>]

RECURSIVE ParseXor(_), ParseXorRest(_, _), ParseArith(_), ParseArithRest(_, _),
          ParseTerm(_), ParseTermRest(_, _), ParseFactor(_), ParsePower(_),
          ParsePrimary(_), ParseTrailers(_, _), ParseAtom(_), SkipStrings(_)

ParseXor(tokens) ==
    With(ParseArith(tokens), LAMBDA l :
        IF l.ok THEN ParseXorRest(l.tree, l.rest) ELSE NoParse)

ParseXorRest(left, tokens) ==
    IF IsOp(tokens, {"^"})
    THEN With(ParseArith(Tail(tokens)), LAMBDA r :
             IF r.ok THEN ParseXorRest(BinOp("BitXor", left, r.tree), r.rest)
             ELSE NoParse)
    ELSE Parsed(left, tokens)

ParseArith(tokens) ==
    With(ParseTerm(tokens), LAMBDA l :
        IF l.ok THEN ParseArithRest(l.tree, l.rest) ELSE NoParse)

ParseArithRest(left, tokens) ==
    IF IsOp(tokens, {"+", "-"})
    THEN With(ParseTerm(Tail(tokens)), LAMBDA r :
             IF r.ok
             THEN ParseArithRest(BinOp(BinOpOf(Head(tokens)[2]), left, r.tree), r.rest)
             ELSE NoParse)
    ELSE Parsed(left, tokens)

ParseTerm(tokens) ==
    With(ParseFactor(tokens), LAMBDA l :
        IF l.ok THEN ParseTermRest(l.tree, l.rest) ELSE NoParse)

ParseTermRest(left, tokens) ==
    IF IsOp(tokens, {"*", "/", "//", "%"})
    THEN With(ParseFactor(Tail(tokens)), LAMBDA r :
             IF r.ok
             THEN ParseTermRest(BinOp(BinOpOf(Head(tokens)[2]), left, r.tree), r.rest)
             ELSE NoParse)
    ELSE Parsed(left, tokens)

ParseFactor(tokens) ==
    IF IsOp(tokens, {"+", "-", "~"})
    THEN With(ParseFactor(Tail(tokens)), LAMBDA r :
             IF r.ok THEN Parsed(UnaryOp(UnaryOpOf(Head(tokens)[2]), r.tree), r.rest)
             ELSE NoParse)
    ELSE ParsePower(tokens)

ParsePower(tokens) ==
    With(ParsePrimary(tokens), LAMBDA l :
        IF l.ok /\ IsOp(l.rest, {"**"})
        THEN With(ParseFactor(Tail(l.rest)), LAMBDA r :
                 IF r.ok THEN Parsed(BinOp("Pow", l.tree, r.tree), r.rest)
                 ELSE NoParse)
        ELSE l)

ParsePrimary(tokens) ==
    With(ParseAtom(tokens), LAMBDA a :
        IF a.ok THEN ParseTrailers(a.tree, a.rest) ELSE NoParse)

ParseTrailers(func, tokens) ==
    IF IsOp(tokens, {"("})
    THEN IF IsOp(Tail(tokens), {")"})
         THEN ParseTrailers(Call(func, <<>>), Tail(Tail(tokens)))
         ELSE With(ParseXor(Tail(tokens)), LAMBDA arg :
                  IF arg.ok /\ IsOp(arg.rest, {")"})
                  THEN ParseTrailers(Call(func, <<arg.tree>>), Tail(arg.rest))
                  ELSE NoParse)
    ELSE Parsed(func, tokens)

SkipStrings(tokens) ==
    IF tokens # <<>> /\ Head(tokens)[1] = "STRING" THEN SkipStrings(Tail(tokens))
    ELSE tokens

ParseAtom(tokens) ==
    IF tokens = <<>> THEN NoParse
    ELSE IF Head(tokens)[1] = "NUMBER" THEN Parsed(Constant(Head(tokens)[2]), Tail(tokens))
    ELSE IF Head(tokens)[1] = "NAME"
         THEN IF Head(tokens)[2] = <<"True">>
              THEN Parsed(Constant(PyBool(TRUE)), Tail(tokens))
              ELSE Parsed(Name(Head(tokens)[2]), Tail(tokens))
    ELSE IF Head(tokens)[1] = "STRING"
         THEN Parsed(Constant(PyStr), SkipStrings(tokens))
    ELSE IF IsOp(tokens, {"("})
         THEN With(ParseXor(Tail(tokens)), LAMBDA inner :
                  IF inner.ok /\ IsOp(inner.rest, {")"})
                  THEN Parsed(inner.tree, Tail(inner.rest))
                  ELSE NoParse)
    ELSE NoParse

\* the tokens of a text without its white space
Lex(text) == SelectSeq(text, LAMBDA tok : tok[1] # "SPACE")

\* ast.parse(expression, mode='eval').body, or the SyntaxError
parse(text) ==
    With(ParseXor(Lex(text)), LAMBDA r :
        IF r.ok /\ r.rest = <<>> THEN [error |-> FALSE, body |-> r.tree]
        ELSE [error |-> TRUE, body |-> <<>>])

(***************************************************************************)
(* calculator (agent.py:32-97).  The argument is a Python value: a string  *)
(* with its text, or something else.  The return value is a text: a number *)
(* as displayed (`shown` tells how it was converted) or one of the error   *)
(* messages, named by its fixed beginning.                                 *)
(***************************************************************************)
StrArg(text) == [str |-> TRUE, text |-> text]

\* a number text: the conversion that made it, the number converted and,
\* for a rounding conversion, the decimal digits shown: <<sign, whole part>>
\* followed by the digits after the point
NumberText(shown, v, digits) ==
    [kind |-> "number", message |-> shown, value |-> v, digits |-> digits]

ErrorText(message) ==
    [kind |-> "error", message |-> message, value |-> PyStr, digits |-> <<>>]

\* no text: the exception left the function
Raised(exc) == [kind |-> "raised", message |-> exc, value |-> PyStr, digits |-> <<>>]

NotRepresented ==
    [kind |-> "out_of_model", message |-> "", value |-> PyStr, digits |-> <<>>]

\* the text depends on how the doubles of the call were rounded: one of alts
Either(alts) ==
    [kind |-> "either", message |-> "", value |-> PyStr, digits |-> <<>>, alts |-> alts]

OneOf(alts) ==
    IF \E x \in alts : x.kind = "out_of_model" THEN NotRepresented
    ELSE IF Cardinality(alts) = 1 THEN CHOOSE x \in alts : TRUE
    ELSE Either(alts)

\* the texts a call can return
Outcomes(r) == IF r.kind = "either" THEN r.alts ELSE {r}

NotAString == "Error: Expression must be a string"
EmptyExpression == "Error: Empty expression provided"
UnsafeOperations == "Error: Expression contains potentially unsafe operations"
InvalidSyntax == "Error: Invalid mathematical syntax"
UnsupportedOperation == "Error: Unsupported operation or invalid expression"
ResultTooLarge == "Error: Result too large"
ResultTooSmall == "Error: Result too small"
DivisionByZero == "Error: Division by zero in expression"
NumberTooLarge == "Error: Number too large to compute in expression"
InvalidValue == "Error: Invalid value in expression"
FailedToCalculate == "Error: Failed to calculate"

\* expression.strip()
RECURSIVE StripLeft(_)
StripLeft(text) ==
    IF text # <<>> /\ Head(text)[1] = "SPACE" THEN StripLeft(Tail(text)) ELSE text

RECURSIVE StripRight(_)
StripRight(text) ==
    IF text # <<>> /\ text[Len(text)][1] = "SPACE"
    THEN StripRight(SubSeq(text, 1, Len(text) - 1))
    ELSE text

\* mutant: expression.strip() left out
strip_nothing(text) == text

Strip(text) == StripRight(StripLeft(text))

dangerous_patterns ==
    {"import", "exec", "eval", "__", "open", "file", "input", "raw_input"}

\* str.lower() on the fragments names are spelled with
Lower(fragment) ==
    CASE fragment = "Eval" -> "eval"
      [] fragment = "True" -> "true"
      [] fragment = "Python" -> "python"
      [] OTHER -> fragment

\* any(pattern in expression.lower() for pattern in dangerous_patterns)
ContainsDangerous(text) ==
    \E i \in DOMAIN text :
        /\ text[i][1] \in {"NAME", "STRING"}
        /\ \E j \in DOMAIN text[i][2] : Lower(text[i][2][j]) \in dangerous_patterns

\* the bounds of the result check: 1e15 and 1e-15
LargeExp == 15
SmallExp == 15

\* abs(x) > 10^k for a real x
AbsGreaterPow10(x, k) ==
    IF k - x.e <= 0
    THEN SatMul(Abs(x.n), SatPow10(x.e - k)) > x.d
    ELSE Abs(x.n) > SatMul(x.d, SatPow10(k - x.e))

\* abs(x) < 10^(-k) for a real x
AbsLessPow10(x, k) ==
    IF x.e + k >= 0
    THEN SatMul(Abs(x.n), SatPow10(x.e + k)) < x.d
    ELSE Abs(x.n) < SatMul(x.d, SatPow10(-(x.e + k)))

\* sys.get_int_max_str_digits(): str(int) raises ValueError beyond it
IntMaxStrDigits == 4300

(***************************************************************************)
(* Decimal digits of a real: round(result, 10) keeps ten digits after the  *)
(* point, format(result, '.10g') ten significant digits; both round half   *)
(* to even on the double.                                                  *)
(***************************************************************************)
\* long division needs 10 * remainder in the machine word
MaxDivisor == 200000000

\* the k digits of v, most significant first (v < 10^k)
Pad(k, v) ==
    [i \in 1..k |-> IF k - i > 9 THEN 0 ELSE (v \div Pow10(k - i)) % 10]

\* the first count digits after the point of r/d (r < d)
RECURSIVE LongDiv(_, _, _)
LongDiv(r, d, count) ==
    IF count = 0 THEN <<>>
    ELSE <<(10 * r) \div d>> \o LongDiv((10 * r) % d, d, count - 1)

\* floor(abs(x)), or Over
WholePart(x) ==
    IF x.e < 0 /\ ~Fits(SatMul(x.d, SatPow10(-x.e))) THEN 0
    ELSE Floor(Abs(x.n), x.d, x.e)

\* the first count digits of abs(x) after the point
FracDigits(x, count) ==
    IF x.e >= 0
    THEN LongDiv((Abs(x.n) * Pow10(x.e)) % x.d, x.d, count)
    ELSE SubSeq(Pad(-x.e, IF -x.e > 9 THEN Abs(x.n) \div x.d
                          ELSE (Abs(x.n) \div x.d) % Pow10(-x.e))
                   \o LongDiv(Abs(x.n) % x.d, x.d, count),
                1, count)

\* abs(x) has a non-zero digit beyond the first count digits after the point
MoreDigits(x, count) ==
    \/ x.d > 1
    \/ /\ -x.e > count
       /\ \/ -x.e - count > 9
          \/ Abs(x.n) % Pow10(-x.e - count) # 0

\* a digit sequence plus one: <<carry>> \o digits
RECURSIVE Increment(_)
Increment(digits) ==
    IF digits = <<>> THEN <<1>>
    ELSE IF digits[Len(digits)] < 9
         THEN <<0>> \o SubSeq(digits, 1, Len(digits) - 1) \o <<digits[Len(digits)] + 1>>
    ELSE Increment(SubSeq(digits, 1, Len(digits) - 1)) \o <<0>>

\* trailing zeros go, atLeast digits stay
RECURSIVE TrimZeros(_, _)
TrimZeros(digits, atLeast) ==
    IF Len(digits) > atLeast /\ digits[Len(digits)] = 0
    THEN TrimZeros(SubSeq(digits, 1, Len(digits) - 1), atLeast)
    ELSE digits

\* whole.digits rounded half to even after `places` digits; digits holds
\* places + 1 of them.  <<>>: a tie the double may break either way
RoundAt(sign, whole, digits, places, more, exact, atLeast) ==
    IF digits[places + 1] = 5 /\ ~more /\ ~exact THEN <<>>
    ELSE IF \/ digits[places + 1] > 5
            \/ digits[places + 1] = 5 /\ more
            \/ /\ digits[places + 1] = 5
               /\ (IF places = 0 THEN whole ELSE digits[places]) % 2 = 1
         THEN With(Increment(SubSeq(digits, 1, places)), LAMBDA up :
                  <<sign, whole + up[1]>> \o TrimZeros(Tail(up), atLeast))
    ELSE <<sign, whole>> \o TrimZeros(SubSeq(digits, 1, places), atLeast)

\* the digits of a real the long division can take
Divisible(x) == x.d <= MaxDivisor /\ Fits(WholePart(x))

\* round(x, 10)
Round10(x) ==
    IF ~Divisible(x) THEN <<>>
    ELSE RoundAt(Sign(x.n), WholePart(x), FracDigits(x, 11), 10,
                 MoreDigits(x, 11), x.exact, 1)

\* how many zeros digits starts with, all of them counted when it is zeros
RECURSIVE LeadingZeros(_)
LeadingZeros(digits) ==
    IF digits = <<>> \/ Head(digits) # 0 THEN 0 ELSE 1 + LeadingZeros(Tail(digits))

\* the digits after the point that ten significant digits reach
Places(x) ==
    IF WholePart(x) > 0 THEN LeadingZeros(Pad(10, WholePart(x)))
    ELSE 10 + LeadingZeros(FracDigits(x, 30 + Abs(x.e)))

\* format(x, '.10g')
Sig10(x) ==
    IF ~Divisible(x) THEN <<>>
    ELSE RoundAt(Sign(x.n), WholePart(x), FracDigits(x, Places(x) + 1), Places(x),
                 MoreDigits(x, Places(x) + 1), x.exact, 0)

\* str(int(result))
IntText(x) ==
    NumberText("str(int(result))", [x EXCEPT !.t = "int", !.exact = TRUE], <<>>)

\* str(round(result, 10)); the rounding error of a double above 10^5 reaches
\* the tenth digit after the point
RoundText(x) ==
    IF Round10(x) = <<>> \/ (~x.exact /\ AbsGreaterPow10(x, 5)) THEN NotRepresented
    ELSE NumberText("str(round(result, 10))", x, Round10(x))

\* the texts of a float (agent.py:75-86): a rounded double next to a whole
\* number may or may not be that number
FloatTexts(x) ==
    IF AbsGreaterPow10(x, LargeExp) THEN {ErrorText(ResultTooLarge)}
    ELSE IF AbsLessPow10(x, SmallExp) /\ x.n # 0 THEN {ErrorText(ResultTooSmall)}
    ELSE IF x.d = 1 /\ x.e >= 0
         THEN {IntText(x)} \cup (IF x.exact THEN {} ELSE {RoundText(x)})
    ELSE {RoundText(x)}

\* the residue of a float modulo: a double above zero, under 1e-15 or not
Residue(x) == [Value("float", 0, 1, 0, 0) EXCEPT !.exact = FALSE, !.edge = x.edge]

\* the texts of the remainder x.edge describes: just under the divisor, or
\* a residue
EdgeTexts(x) ==
    (FloatTexts([x EXCEPT !.edge = "none"]) \ {IntText([x EXCEPT !.edge = "none"])})
    \cup {ErrorText(ResultTooSmall)}
    \cup (IF x.edge = "any"
          THEN {NumberText("str(round(result, 10))", Residue(x), <<Sign(x.n), 0, 0>>)}
          ELSE {})

\* the formatting of a result (agent.py:74-88)
format(result) ==
    IF result.t = "float"
    THEN IF result.edge = "none" THEN OneOf(FloatTexts(result))
         ELSE OneOf(EdgeTexts(result))
    ELSE IF result.t = "int" /\ result.e > IntMaxStrDigits THEN Raised("ValueError")
    ELSE IF result.t = "int" /\ result.e > IntMaxStrDigits - 10 THEN NotRepresented
    ELSE NumberText("str(result)", result, <<>>)

\* the body of the try block (agent.py:47-88): a text, or the exception
calculate(expression) ==
    IF ~expression.str THEN ErrorText(NotAString)
    ELSE With(Strip(expression.text), LAMBDA text :
             IF text = <<>> THEN ErrorText(EmptyExpression)
             ELSE IF ContainsDangerous(text) THEN ErrorText(UnsafeOperations)
             ELSE With(parse(text), LAMBDA parsed_ast :
                      IF parsed_ast.error THEN ErrorText(InvalidSyntax)
                      ELSE With(safe_eval_math_ast(parsed_ast.body), LAMBDA result :
                               IF result.k = "raise" THEN Raised(result.exc)
                               ELSE IF result.k = "out_of_model" THEN NotRepresented
                               ELSE IF result.k = "none"
                                    THEN ErrorText(UnsupportedOperation)
                               ELSE format(result.v))))

\* mutant: no try/except around the body
calculator_no_except(expression) == calculate(expression)

\* mutant: no `except ZeroDivisionError` clause
calculator_no_zero_clause(expression) ==
    With(calculate(expression), LAMBDA r :
        IF r.kind # "raised" THEN r
        ELSE IF r.message = "OverflowError" THEN ErrorText(NumberTooLarge)
        ELSE IF r.message = "ValueError" THEN ErrorText(InvalidValue)
        ELSE ErrorText(FailedToCalculate))

\* calculator: the body and the except clauses (agent.py:90-97)
calculator(expression) ==
    With(calculate(expression), LAMBDA r :
        IF r.kind # "raised" THEN r
        ELSE IF r.message = "ZeroDivisionError" THEN ErrorText(DivisionByZero)
        ELSE IF r.message = "OverflowError" THEN ErrorText(NumberTooLarge)
        ELSE IF r.message = "ValueError" THEN ErrorText(InvalidValue)
        ELSE ErrorText(FailedToCalculate))

(***************************************************************************)
(* The calculator of tools.py (tools.py:49-110): every number is a float,  *)
(* an unsupported node raises ValueError, and the text is neither checked  *)
(* nor stripped before ast.parse.                                          *)
(***************************************************************************)
InvalidExpression == "Invalid expression"
DivisionByZeroTools == "Error: Division by zero"
CalculationError == "Calculation error"

allowed_operators == {"Add", "Sub", "Mult", "Div", "Mod", "Pow", "USub", "UAdd"}

\* float(node.value)
ToFloat(v) ==
    IF v.t # "float" /\ v.e >= FloatOverExp THEN Raise("OverflowError")
    ELSE IF v.t # "float" /\ v.e > FloatMaxExp THEN OutOfModel
    ELSE Ok([v EXCEPT !.t = "float", !.exact = ExactFloat(v)])

\* op_func(left, right) on floats: the operators raise ZeroDivisionError
op_func(op, left, right) ==
    IF op \in {"Div", "Mod"} /\ IsZero(right) THEN Raise("ZeroDivisionError")
    ELSE Arith(op, left, right)

\* eval_node (tools.py:72-94)
RECURSIVE eval_node(_)
eval_node(node) ==
    IF node[1] = "Constant"
    THEN IF node[2].t \in {"bool", "int", "float"} THEN ToFloat(node[2])
         ELSE Raise("ValueError")
    ELSE IF node[1] = "BinOp"
    THEN With(eval_node(node[3]), LAMBDA left :
             IF left.k # "value" THEN left
             ELSE With(eval_node(node[4]), LAMBDA right :
                      IF right.k # "value" THEN right
                      ELSE IF node[2] \notin allowed_operators THEN Raise("ValueError")
                      ELSE op_func(node[2], left.v, right.v)))
    ELSE IF node[1] = "UnaryOp"
    THEN With(eval_node(node[3]), LAMBDA operand :
             IF operand.k # "value" THEN operand
             ELSE IF node[2] \notin allowed_operators THEN Raise("ValueError")
             ELSE IF node[2] = "USub" THEN Ok(Neg(operand.v))
             ELSE Ok(operand.v))
    ELSE Raise("ValueError")

\* format(result, '.10g') (tools.py:103)
GText(x) ==
    IF Sig10(x) = <<>> THEN NotRepresented
    ELSE NumberText("format(result, '.10g')", x, Sig10(x))

\* the texts of a result (tools.py:99-103)
ToolsTexts(x) ==
    IF x.d = 1 /\ x.e >= 0
    THEN {IntText(x)} \cup (IF x.exact THEN {} ELSE {GText(x)})
    ELSE {GText(x)}

\* the texts of the remainder x.edge describes; the digits of a residue are
\* those of the rounding error
ToolsEdgeTexts(x) ==
    (ToolsTexts([x EXCEPT !.edge = "none"]) \ {IntText([x EXCEPT !.edge = "none"])})
    \cup {NumberText("format(result, '.10g')", Residue(x), <<>>)}

\* the body of the try block (tools.py:96-104)
tools_calculate(expression) ==
    IF ~expression.str THEN Raised("TypeError")
    ELSE IF expression.text = <<>> THEN Raised("SyntaxError")
    ELSE IF Head(expression.text)[1] = "SPACE" THEN Raised("SyntaxError")
    ELSE With(parse(expression.text), LAMBDA tree :
             IF tree.error THEN Raised("SyntaxError")
             ELSE With(eval_node(tree.body), LAMBDA r :
                      IF r.k = "raise" THEN Raised(r.exc)
                      ELSE IF r.k = "out_of_model" THEN NotRepresented
                      ELSE IF r.v.edge = "none" THEN OneOf(ToolsTexts(r.v))
                      ELSE OneOf(ToolsEdgeTexts(r.v))))

\* calculator of tools.py: the body and the except clauses (tools.py:105-110)
tools_calculator(expression) ==
    With(tools_calculate(expression), LAMBDA r :
        IF r.kind # "raised" THEN r
        ELSE IF r.message \in {"SyntaxError", "ValueError"}
             THEN ErrorText(InvalidExpression)
        ELSE IF r.message = "ZeroDivisionError" THEN ErrorText(DivisionByZeroTools)
        ELSE ErrorText(CalculationError))

(***************************************************************************)
(* CalcSpec: one call of calculator.  The texts are built from a pool of   *)
(* atoms and operator symbols: single atoms, signed atoms, one operation,  *)
(* two operations with and without parentheses, calls, broken texts and    *)
(* blank ones.                                                             *)
(***************************************************************************)
MaxLit == 2        \* CalcSpec: the small integer literals are 0..MaxLit

IntTok(k) == Number(PyInt(k))

\* the numbers every family draws from
CoreAtoms ==
    {IntTok(k) : k \in 0..MaxLit}
    \cup {IntTok(10), IntTok(MaxExponent), IntTok(MaxExponent + 1)}

\* names, constants that are not numbers, and other literals
OtherAtoms ==
    { Ident(<<"x">>), Ident(<<"open">>), Ident(<<"True">>), String(<<"a">>),
      Number(PyFloat(1, 2)), Number(PyComplex(0, 1)),
      Number(PyComplex(0, MaxExponent + 1)), IntTok(LargeExp + 1) }

Atoms == CoreAtoms \cup OtherAtoms

BinSymbols == {"+", "-", "*", "/", "//", "%", "**", "^"}

UnarySymbols == {"+", "-", "~"}

\* the operands and operators of the texts with two operations
NestedAtoms == {IntTok(k) : k \in 0..MaxLit} \cup {IntTok(MaxExponent + 1)}

NestedSymbols == BinSymbols \ {"//"}

\* the operands of the texts whose quotient is not a double
RoundingAtoms == {IntTok(1), IntTok(3), IntTok(49), IntTok(MaxExponent + 1)}

RoundingSymbols == {"*", "%"}

Texts ==
    {<<a>> : a \in Atoms}
    \cup {<<Op(u), a>> : u \in UnarySymbols, a \in Atoms}
    \cup {<<a, Op(o), b>> : a \in Atoms, o \in BinSymbols, b \in Atoms}
    \cup {<<a, Op(o), Op("-"), b>> : a \in CoreAtoms, o \in BinSymbols, b \in CoreAtoms}
    \cup {<<a, Op(o), b, Op(p), c>> :
             a \in NestedAtoms \cup {Ident(<<"x">>)}, o \in NestedSymbols,
             b \in NestedAtoms, p \in NestedSymbols,
             c \in NestedAtoms \cup {Ident(<<"x">>)}}
    \cup {<<a, Op(o), Op("("), b, Op(p), c, Op(")")>> :
             a \in NestedAtoms, o \in NestedSymbols,
             b \in NestedAtoms, p \in NestedSymbols, c \in NestedAtoms}
    \cup {<<a, Op("/"), b, Op(o), c>> :
             a \in RoundingAtoms, b \in RoundingAtoms, o \in RoundingSymbols,
             c \in RoundingAtoms}
    \cup {<<a, Op(o), Op("("), b, Op("/"), c, Op(")")>> :
             a \in RoundingAtoms, o \in RoundingSymbols, b \in RoundingAtoms,
             c \in RoundingAtoms}
    \cup {<<f, Op("("), a, Op(")")>> : f \in OtherAtoms, a \in CoreAtoms}
    \cup {<<a, Op(o)>> : a \in Atoms, o \in BinSymbols}
    \cup {<<Op("("), a>> : a \in Atoms}
    \cup {<<Space, a, Space>> : a \in Atoms}
    \cup {<<>>, <<Space>>, <<Space, Space>>}

\* the arguments whose arithmetic the model represents
Expressions ==
    {e \in {NotStrArg} \cup {StrArg(t) : t \in Texts} :
        calculator(e).kind # "out_of_model"}

CalcInit ==
    /\ mode = "calc"
    /\ messages = <<>>
    /\ uuid = 0
    /\ RunIdle
    /\ argument \in Expressions
    /\ returned = NotCalled
    /\ callee = "none"
    /\ trace = <<>>

\* calculator.invoke({"expression": expression})
Calculate ==
    /\ mode = "calc"
    /\ returned = NotCalled
    /\ returned' \in Outcomes(calculator(argument))
    /\ callee' = "agent"
    /\ UNCHANGED <<mode, messages, uuid, runVars, argument, trace>>

\* the calculator of tools.py called on the same argument
ToolsCalculate ==
    /\ mode = "calc"
    /\ returned = NotCalled
    /\ tools_calculator(argument).kind # "out_of_model"
    /\ returned' \in Outcomes(tools_calculator(argument))
    /\ callee' = "tools"
    /\ UNCHANGED <<mode, messages, uuid, runVars, argument, trace>>

CalcNext == Calculate \/ ToolsCalculate

CalcSpec == CalcInit /\ [][CalcNext]_vars

(***************************************************************************)
(* Claims about the calculator (CalcSpec), stated of the call that was     *)
(* made: `argument` is what was passed, `returned` what came back.         *)
(***************************************************************************)
Called == mode = "calc" /\ callee = "agent"

CalledTools == mode = "calc" /\ callee = "tools"

\* the argument reached the evaluator: a string that is not blank, holds no
\* block-listed pattern and parses
Evaluated ==
    /\ argument.str
    /\ Strip(argument.text) # <<>>
    /\ ~ContainsDangerous(Strip(argument.text))
    /\ ~parse(Strip(argument.text)).error

Tree == parse(Strip(argument.text)).body

Raises(node) == safe_eval_math_ast(node).k = "raise"

RECURSIVE HasOtherNode(_)
HasOtherNode(node) ==
    IF node[1] = "Constant" THEN node[2].t \notin {"int", "float", "complex"}
    ELSE IF node[1] = "BinOp"
    THEN \/ node[2] \notin {"Add", "Sub", "Mult", "Div", "Pow", "Mod"}
         \/ HasOtherNode(node[3])
         \/ HasOtherNode(node[4])
    ELSE IF node[1] = "UnaryOp"
    THEN node[2] \notin {"UAdd", "USub"} \/ HasOtherNode(node[3])
    ELSE TRUE

\* C17: an expression tree with any other node, at any depth, gives the
\* unsupported-operation error, whatever the text.
C17_OtherNodeIsUnsupported ==
    (Called /\ argument.str /\ Strip(argument.text) # <<>>
            /\ ~parse(Strip(argument.text)).error
            /\ HasOtherNode(Tree))
        => returned = ErrorText(UnsupportedOperation)

\* the text holds only numeric literals, + - * / % ^, parentheses
OnlyArithmetic(text) ==
    \A i \in DOMAIN text :
        \/ text[i][1] = "SPACE"
        \/ text[i][1] = "NUMBER" /\ text[i][2].t \in {"int", "float"}
        \/ text[i][1] = "OP" /\ text[i][2] \in {"+", "-", "*", "/", "%", "^", "(", ")"}

\* C18: a text of numeric literals, + - * / % ^, parentheses and signs gives
\* a number or a numeric error, never the unsupported-operation error.
C18_ArithmeticIsSupported ==
    (Called /\ Evaluated /\ OnlyArithmetic(argument.text)) =>
        \/ returned.kind = "number"
        \/ returned.kind = "error" /\
               returned.message \in
                   {DivisionByZero, NumberTooLarge, ResultTooLarge, ResultTooSmall}

\* abs(x) > MaxExponent for any number x
BeyondMaxExponent(x) ==
    IF x.t = "complex" THEN x.n * x.n + x.im * x.im > MaxExponent * MaxExponent
    ELSE AbsGreater(x, MaxExponent)

Evaluates(node) == safe_eval_math_ast(node).k = "value"

\* evaluating node evaluates the operands of a Pow to numbers, and the
\* magnitude of the exponent is beyond MaxExponent
RECURSIVE ReachesBigExponent(_)
ReachesBigExponent(node) ==
    IF node[1] = "BinOp"
    THEN \/ ReachesBigExponent(node[3])
         \/ /\ ~Raises(node[3])
            /\ \/ ReachesBigExponent(node[4])
               \/ /\ node[2] = "Pow"
                  /\ Evaluates(node[3])
                  /\ Evaluates(node[4])
                  /\ BeyondMaxExponent(safe_eval_math_ast(node[4]).v)
    ELSE IF node[1] = "UnaryOp" THEN ReachesBigExponent(node[3])
    ELSE FALSE

\* C19: an exponentiation whose evaluated exponent is beyond MaxExponent in
\* magnitude gives the number-too-large error, whatever number the base is
\* and wherever it sits.
C19_BigExponentOverflows ==
    (Called /\ Evaluated /\ ReachesBigExponent(Tree))
        => returned = ErrorText(NumberTooLarge)

\* evaluating node evaluates the right operand of a Div or Mod to zero;
\* with numericLeft, the left operand of that node evaluates to a number
RECURSIVE ReachesZeroDivisor(_, _)
ReachesZeroDivisor(node, numericLeft) ==
    IF node[1] = "BinOp"
    THEN \/ ReachesZeroDivisor(node[3], numericLeft)
         \/ /\ ~Raises(node[3])
            /\ \/ ReachesZeroDivisor(node[4], numericLeft)
               \/ /\ node[2] \in {"Div", "Mod"}
                  /\ Evaluates(node[4])
                  /\ IsZero(safe_eval_math_ast(node[4]).v)
                  /\ numericLeft => Evaluates(node[3])
    ELSE IF node[1] = "UnaryOp" THEN ReachesZeroDivisor(node[3], numericLeft)
    ELSE FALSE

\* C20 as stated: a division or modulo whose right operand evaluates to
\* zero, at any depth, gives the division-by-zero error.
C20_ZeroDivisorIsError ==
    (Called /\ Evaluated /\ ReachesZeroDivisor(Tree, FALSE))
        => returned = ErrorText(DivisionByZero)

\* C20: a division or modulo of a number by a right operand that evaluates
\* to zero, at any depth, gives the division-by-zero error text, never a
\* number nor an exception.
C20_NumberByZeroIsError ==
    (Called /\ Evaluated /\ ReachesZeroDivisor(Tree, TRUE))
        => returned = ErrorText(DivisionByZero)

\* a division by a right operand that is computed to be zero
C20_Witness ==
    /\ Called /\ Evaluated
    /\ Tree = BinOp("Div", Constant(PyInt(1)),
                    BinOp("Sub", Constant(PyInt(1)), Constant(PyInt(1))))
    /\ ReachesZeroDivisor(Tree, TRUE)
    /\ returned = ErrorText(DivisionByZero)

\* the number the evaluator gave for the argument
ResultOf == safe_eval_math_ast(Tree).v

\* a real beyond the range of the formatting: abs(x) > 10^LargeExp, or
\* 0 < abs(x) < 10^-SmallExp
OutOfRange(x) ==
    /\ x.t # "complex"
    /\ x.edge = "none"
    /\ \/ AbsGreaterPow10(x, LargeExp)
       \/ x.n # 0 /\ AbsLessPow10(x, SmallExp)

\* C21: an evaluated result above 10^LargeExp or, when it is not zero, below
\* 10^-SmallExp in absolute value comes back as the too-large or too-small
\* error text, never as a number, integer or not.
C21_OutOfRangeIsError ==
    (Called /\ Evaluated /\ Evaluates(Tree) /\ OutOfRange(ResultOf))
        => /\ returned.kind = "error"
           /\ returned.message \in {ResultTooLarge, ResultTooSmall}

\* a number that is a whole number in exact arithmetic
Integral(x) == x.im = 0 /\ x.d = 1 /\ x.e >= 0

\* a text of an integer: no point, no fraction
WholeText(r) ==
    \/ r.message = "str(int(result))"
    \/ r.message = "str(result)" /\ r.value.t = "int"

\* a text of x rounded to ten digits after the point
TenPlacesText(r, x) ==
    /\ r.digits # <<>>
    /\ r.digits = Round10(x)

\* the number eval_node of tools.py gave for the argument
ToolsResultOf == eval_node(parse(argument.text).body).v

ToolsEvaluated == tools_calculate(argument).kind \notin {"raised", "out_of_model"}

\* the real numbers whose value in exact arithmetic the model holds
Known(x) == x.t \in {"int", "float"} /\ x.edge = "none"

\* C22: a successful result that is a whole number in exact arithmetic is
\* shown as an integer with no fractional part, and every other successful
\* result is shown rounded to ten digits after the point, by the calculator
\* of agent.py and by the one of tools.py.
C22_IntegralOrTenPlaces ==
    /\ (Called /\ Evaluated /\ Evaluates(Tree) /\ Known(ResultOf)
               /\ returned.kind = "number")
          => IF Integral(ResultOf) THEN WholeText(returned)
             ELSE TenPlacesText(returned, ResultOf)
    /\ (CalledTools /\ ToolsEvaluated /\ Known(ToolsResultOf)
                    /\ returned.kind = "number")
          => IF Integral(ToolsResultOf) THEN WholeText(returned)
             ELSE TenPlacesText(returned, ToolsResultOf)

(***************************************************************************)
(* Standard arithmetic on the tokens of a text, for comparison: exact      *)
(* rationals, and the expression split at its loosest operator instead of  *)
(* parsed into a tree.  Binary + and - bind loosest and group from the     *)
(* left, then * / %, then the signs, then ** which groups from the right.  *)
(***************************************************************************)
\* the exact rational n/d * 10^e
StdValue(n, d, e) == Result("int", n, d, e, OutOfModel)

StdAdd(a, b) ==
    With(Min(a.e, b.e), LAMBDA e :
        StdValue(SatAdd(SatMul(SatMul(a.n, SatPow10(a.e - e)), b.d),
                        SatMul(SatMul(b.n, SatPow10(b.e - e)), a.d)),
                 SatMul(a.d, b.d), e))

StdMul(a, b) == StdValue(SatMul(a.n, b.n), SatMul(a.d, b.d), a.e + b.e)

StdDiv(a, b) ==
    IF b.n = 0 THEN Raise("ZeroDivisionError")
    ELSE StdValue(SatMul(SatMul(a.n, b.d), Sign(b.n)), SatMul(a.d, Abs(b.n)), a.e - b.e)

\* a - b * floor(a / b)
StdMod(a, b) ==
    With(StdDiv(a, b), LAMBDA q :
        IF q.k # "value" THEN q
        ELSE With(Floor(q.v.n, q.v.d, q.v.e), LAMBDA f :
                 IF ~Fits(f) THEN OutOfModel
                 ELSE With(StdMul(b, PyInt(-f)), LAMBDA bf :
                          IF bf.k # "value" THEN bf ELSE StdAdd(a, bf.v))))

\* a whole exponent only
StdPow(a, b) ==
    IF ~IsSmallInteger([b EXCEPT !.n = Abs(b.n)]) THEN OutOfModel
    ELSE With(AsInteger(b), LAMBDA k :
             IF k >= 0 THEN StdValue(SatPow(a.n, k), SatPow(a.d, k), a.e * k)
             ELSE IF a.n = 0 THEN Raise("ZeroDivisionError")
             ELSE StdValue(SatMul(SatPow(a.d, -k), SatPow(Sign(a.n), -k)),
                           SatPow(Abs(a.n), -k), a.e * k))

StdOp(symbol, a, b) ==
    IF a.k # "value" THEN a
    ELSE IF b.k # "value" THEN b
    ELSE IF symbol = "+" THEN StdAdd(a.v, b.v)
    ELSE IF symbol = "-" THEN StdAdd(a.v, Neg(b.v))
    ELSE IF symbol = "*" THEN StdMul(a.v, b.v)
    ELSE IF symbol = "/" THEN StdDiv(a.v, b.v)
    ELSE IF symbol = "%" THEN StdMod(a.v, b.v)
    ELSE StdPow(a.v, b.v)

\* how many parentheses are open before token i
RECURSIVE Depth(_, _)
Depth(toks, i) ==
    IF i = 1 THEN 0
    ELSE Depth(toks, i - 1)
         + (IF toks[i - 1] = Op("(") THEN 1 ELSE IF toks[i - 1] = Op(")") THEN -1 ELSE 0)

\* the positions of the binary operators of `symbols` outside parentheses:
\* an operator after a number or a closing parenthesis is binary
Binary(toks, symbols) ==
    {i \in 2..Len(toks) :
        /\ toks[i][1] = "OP" /\ toks[i][2] \in symbols
        /\ Depth(toks, i) = 0
        /\ toks[i - 1][1] = "NUMBER" \/ toks[i - 1] = Op(")")}

Largest(S) == CHOOSE i \in S : \A j \in S : j <= i

Smallest(S) == CHOOSE i \in S : \A j \in S : i <= j

\* the value of the tokens in standard arithmetic
RECURSIVE Standard(_)
Standard(toks) ==
    IF toks = <<>> THEN Raise("SyntaxError")
    ELSE IF Binary(toks, {"+", "-"}) # {}
    THEN With(Largest(Binary(toks, {"+", "-"})), LAMBDA i :
             StdOp(toks[i][2], Standard(SubSeq(toks, 1, i - 1)),
                   Standard(SubSeq(toks, i + 1, Len(toks)))))
    ELSE IF Binary(toks, {"*", "/", "%"}) # {}
    THEN With(Largest(Binary(toks, {"*", "/", "%"})), LAMBDA i :
             StdOp(toks[i][2], Standard(SubSeq(toks, 1, i - 1)),
                   Standard(SubSeq(toks, i + 1, Len(toks)))))
    ELSE IF Head(toks) = Op("+") THEN Standard(Tail(toks))
    ELSE IF Head(toks) = Op("-")
    THEN With(Standard(Tail(toks)), LAMBDA r :
             IF r.k # "value" THEN r ELSE Ok(Neg(r.v)))
    ELSE IF Binary(toks, {"**"}) # {}
    THEN With(Smallest(Binary(toks, {"**"})), LAMBDA i :
             StdOp("**", Standard(SubSeq(toks, 1, i - 1)),
                   Standard(SubSeq(toks, i + 1, Len(toks)))))
    ELSE IF Len(toks) >= 3 /\ Head(toks) = Op("(") /\ toks[Len(toks)] = Op(")")
    THEN Standard(SubSeq(toks, 2, Len(toks) - 1))
    ELSE IF Len(toks) = 1 /\ Head(toks)[1] = "NUMBER" /\ Head(toks)[2].t = "int"
    THEN Ok(Head(toks)[2])
    ELSE Raise("SyntaxError")

\* the text holds only integer literals, + - * / ** %, parentheses
IntegerArithmetic(text) ==
    \A i \in DOMAIN text :
        \/ text[i][1] = "SPACE"
        \/ text[i][1] = "NUMBER" /\ text[i][2].t = "int"
        \/ text[i][1] = "OP" /\ text[i][2] \in {"+", "-", "*", "/", "**", "%", "(", ")"}

\* the digits of a number text, as rounded to ten digits after the point
TextDigits(r) == IF r.digits # <<>> THEN r.digits ELSE Round10(r.value)

IsNought(digits) == \A i \in 2..Len(digits) : digits[i] = 0

\* the text r shows the number x, up to the rounding to ten digits
Shows(r, x) ==
    IF r.value.edge = "none" /\ r.value.exact /\ r.value.t = "int" /\ x.d = 1 /\ x.e >= 0
    THEN r.value.n = x.n /\ r.value.e = x.e
    ELSE /\ TextDigits(r) # <<>>
         /\ \/ TextDigits(r) = Round10(x)
            \/ IsNought(TextDigits(r)) /\ Round10(x) # <<>> /\ IsNought(Round10(x))

StandardOf == Standard(Lex(argument.text))

\* C23: a well-formed text of integer literals, + - * / ** %, parentheses
\* and signs for which the calculator gives a number gives the number of
\* standard arithmetic, with the usual precedence and grouping.
C23_StandardArithmetic ==
    (Called /\ Evaluated /\ IntegerArithmetic(argument.text)
            /\ returned.kind = "number" /\ StandardOf.k = "value")
        => Shows(returned, StandardOf.v)

\* the steps of the try block that a call runs, in order (agent.py:47-88):
\* the checks of the argument, the block-list, ast.parse, the evaluator, the
\* formatting
Steps(expression) ==
    IF ~expression.str THEN <<"validate">>
    ELSE With(Strip(expression.text), LAMBDA text :
             IF text = <<>> THEN <<"validate">>
             ELSE IF ContainsDangerous(text) THEN <<"validate", "screen">>
             ELSE IF parse(text).error THEN <<"validate", "screen", "parse">>
             ELSE IF safe_eval_math_ast(parse(text).body).k # "value"
                  THEN <<"validate", "screen", "parse", "evaluate">>
             ELSE <<"validate", "screen", "parse", "evaluate", "format">>)

\* a text of white space only, the empty text included
Blank(text) == \A i \in DOMAIN text : text[i][1] = "SPACE"

\* C24: an argument that is not a string, and a string that is empty or
\* white space only, are answered with a validation error text at once:
\* nothing is parsed and nothing evaluated.
C24_InvalidInputRejected ==
    Called =>
        /\ ~argument.str =>
              returned = ErrorText(NotAString) /\ Steps(argument) = <<"validate">>
        /\ (argument.str /\ Blank(argument.text)) =>
              returned = ErrorText(EmptyExpression) /\ Steps(argument) = <<"validate">>

\* the call with a text of two spaces
C24_Witness ==
    /\ Called
    /\ argument = StrArg(<<Space, Space>>)
    /\ returned = ErrorText(EmptyExpression)

\* C25: a string that is not blank and does not parse into an expression
\* tree gives the syntax error text, and the evaluator is not run on it.
C25_UnparsableIsSyntaxError ==
    (Called /\ argument.str /\ ~Blank(argument.text)
            /\ parse(Strip(argument.text)).error)
        => /\ returned = ErrorText(InvalidSyntax)
           /\ \A i \in DOMAIN Steps(argument) : Steps(argument)[i] # "evaluate"

\* the error text of an exception that leaves the try block (agent.py:90-97)
ExceptText(exc) ==
    IF exc = "ZeroDivisionError" THEN ErrorText(DivisionByZero)
    ELSE IF exc = "OverflowError" THEN ErrorText(NumberTooLarge)
    ELSE IF exc = "ValueError" THEN ErrorText(InvalidValue)
    ELSE ErrorText(FailedToCalculate)

\* the operands of the binary operation at the root of the tree, evaluated
LeftOf == safe_eval_math_ast(Tree[3])

RightOf == safe_eval_math_ast(Tree[4])

\* C29: the two operands of a binary operation are evaluated, left then
\* right, before the test for an unsupported operand: an exception raised in
\* an operand gives its error text even when the other operand is
\* unsupported, and an unsupported operand next to operands that raise
\* nothing gives the unsupported-operation text.
C29_ErrorBeforeUnsupported ==
    (Called /\ Evaluated /\ Tree[1] = "BinOp") =>
        /\ LeftOf.k = "raise" => returned = ExceptText(LeftOf.exc)
        /\ (LeftOf.k # "raise" /\ RightOf.k = "raise")
              => returned = ExceptText(RightOf.exc)
        /\ (LeftOf.k # "raise" /\ RightOf.k # "raise"
                /\ (LeftOf.k = "none" \/ RightOf.k = "none"))
              => returned = ErrorText(UnsupportedOperation)

\* the call with x + 1 / 0: the left operand is a name, the right one
\* divides by zero
C29_Witness ==
    /\ Called /\ Evaluated
    /\ Tree = BinOp("Add", Name(<<"x">>),
                    BinOp("Div", Constant(PyInt(1)), Constant(PyInt(0))))
    /\ LeftOf.k = "none"
    /\ RightOf = Raise("ZeroDivisionError")
    /\ returned = ErrorText(DivisionByZero)

(***************************************************************************)
(* web_search (agent.py:191-255).  A query is a text of words, white space *)
(* and runs of other characters: <<"NAME", fragments>>, <<"SPACE", " ">>,  *)
(* <<"FILL", n>> for n characters that spell no keyword.  The network      *)
(* answers each request in one of a few ways; a search method is its body  *)
(* and its own `except Exception: return None`.  A result is a text (its   *)
(* parts in order), None, or an exception.                                 *)
(***************************************************************************)
Fill(n) == <<"FILL", n>>

\* len() of a fragment of a word
Chars(fragment) ==
    CASE fragment = "Python" -> 6
      [] fragment = "weather" -> 7
      [] fragment = "news" -> 4
      [] fragment = "stock" -> 5
      [] fragment = "recipe" -> 6
      [] fragment = "health" -> 6
      [] OTHER -> 3

RECURSIVE Letters(_)
Letters(fragments) ==
    IF fragments = <<>> THEN 0 ELSE Chars(Head(fragments)) + Letters(Tail(fragments))

\* len(query)
RECURSIVE Length(_)
Length(text) ==
    IF text = <<>> THEN 0
    ELSE (IF Head(text)[1] = "SPACE" THEN 1
          ELSE IF Head(text)[1] = "FILL" THEN Head(text)[2]
          ELSE Letters(Head(text)[2]))
         + Length(Tail(text))

\* any(word in query.lower() for word in words)
ContainsWord(text, words) ==
    \E i \in DOMAIN text :
        /\ text[i][1] = "NAME"
        /\ \E j \in DOMAIN text[i][2] : Lower(text[i][2][j]) \in words

SomeText(parts) == [k |-> "text", parts |-> parts, exc |-> ""]

NoText == [k |-> "none", parts |-> <<>>, exc |-> ""]

Raising(exc) == [k |-> "raise", parts |-> <<>>, exc |-> exc]

\* `if search_results:` on what a method returned
Truthy(r) == r.k = "text" /\ r.parts # <<>>

\* the events of a call: a search method was called, a request was sent and
\* answered
CallOf(method) == [ev |-> "call", what |-> method, response |-> ""]

Get(host, response) == [ev |-> "get", what |-> host, response |-> response]

SearchResultsFor == "Search results for '{query}':"

\* the ways the network answers a request of each method
DuckDuckGoResponses == {"answer", "nothing", "status_error", "timeout", "not_json"}

WikipediaResponses == {"extract", "no_extract", "not_found", "timeout", "not_json"}

HttpbinResponses == {"ok", "status_error", "timeout"}

Webs ==
    [duckduckgo : DuckDuckGoResponses, wikipedia : WikipediaResponses,
     httpbin : HttpbinResponses]

\* the try block of _search_duckduckgo_instant (agent.py:269-309)
duckduckgo_body(query, response) ==
    IF response = "timeout" THEN Raising("Timeout")
    ELSE IF response = "status_error" THEN Raising("HTTPError")
    ELSE IF response = "not_json" THEN Raising("JSONDecodeError")
    ELSE IF response = "answer" THEN SomeText(<<SearchResultsFor, query, "Answer">>)
    ELSE NoText

\* the try block of _search_wikipedia (agent.py:327-351)
wikipedia_body(query, response) ==
    IF response = "timeout" THEN Raising("Timeout")
    ELSE IF response = "not_found" THEN NoText
    ELSE IF response = "not_json" THEN Raising("JSONDecodeError")
    ELSE IF response = "extract" THEN SomeText(<<SearchResultsFor, query, "extract">>)
    ELSE NoText

\* the request of _search_web_scraping is sent for these words only
scraping_words == {"python", "programming", "code"}

\* the try block of _search_web_scraping (agent.py:369-383)
scraping_body(query, response) ==
    IF ~ContainsWord(query, scraping_words) THEN NoText
    ELSE IF response = "timeout" THEN Raising("Timeout")
    ELSE IF response = "ok" THEN SomeText(<<SearchResultsFor, query, "programming">>)
    ELSE NoText

\* `except Exception: return None` of the three methods
OrNone(r) == IF r.k = "raise" THEN NoText ELSE r

search_duckduckgo_instant(query, web) ==
    [result |-> OrNone(duckduckgo_body(query, web.duckduckgo)),
     trace |-> <<CallOf("duckduckgo_instant"), Get("api.duckduckgo.com", web.duckduckgo)>>]

search_wikipedia(query, web) ==
    [result |-> OrNone(wikipedia_body(query, web.wikipedia)),
     trace |-> <<CallOf("wikipedia"), Get("en.wikipedia.org", web.wikipedia)>>]

search_web_scraping(query, web) ==
    [result |-> OrNone(scraping_body(query, web.httpbin)),
     trace |-> IF ContainsWord(query, scraping_words)
               THEN <<CallOf("web_scraping"), Get("httpbin.org", web.httpbin)>>
               ELSE <<CallOf("web_scraping")>>]

\* _generate_fallback_response (agent.py:388-418): the first pattern met
fallback_pattern(query) ==
    IF ContainsWord(query, {"weather", "temperature", "climate", "forecast"})
    THEN "weather"
    ELSE IF ContainsWord(query, {"news", "current events", "breaking", "today"})
    THEN "news"
    ELSE IF ContainsWord(query, {"stock", "market", "price", "trading", "finance"})
    THEN "finance"
    ELSE IF ContainsWord(query, {"recipe", "cooking", "food", "ingredients"})
    THEN "recipes"
    ELSE IF ContainsWord(query, {"health", "medical", "symptoms", "treatment"})
    THEN "health"
    ELSE "generic"

generate_fallback_response(query) ==
    [result |-> SomeText(<<SearchResultsFor, query, fallback_pattern(query)>>),
     trace |-> <<CallOf("fallback")>>]

\* a method's result is returned when it is truthy; None, an empty text and
\* an exception (`except Exception: pass`) lead to the next method
Then(first, rest) ==
    IF Truthy(first.result) THEN first
    ELSE [result |-> rest.result, trace |-> first.trace \o rest.trace]

\* mutant: Wikipedia is tried before DuckDuckGo
search_methods_wikipedia_first(query, web) ==
    Then(search_wikipedia(query, web),
         Then(search_duckduckgo_instant(query, web),
              Then(search_web_scraping(query, web),
                   generate_fallback_response(query))))

\* the three methods and the fallback (agent.py:218-246)
search_methods(query, web) ==
    Then(search_duckduckgo_instant(query, web),
         Then(search_wikipedia(query, web),
              Then(search_web_scraping(query, web),
                   generate_fallback_response(query))))

MaxQueryLen == 200

QueryNotAString == "Error: Search query must be a string"
EmptyQuery == "Error: Empty search query provided"
QueryTooLong == "Error: Search query too long (maximum 200 characters)"

\* mutant: the length of the query is not checked
validate_query_no_length(query) ==
    IF ~query.str THEN QueryNotAString
    ELSE IF Strip(query.text) = <<>> THEN EmptyQuery
    ELSE ""

\* the checks of the argument (agent.py:206-216): the error text, or ""
validate_query(query) ==
    IF ~query.str THEN QueryNotAString
    ELSE IF Strip(query.text) = <<>> THEN EmptyQuery
    ELSE IF Length(Strip(query.text)) > MaxQueryLen THEN QueryTooLong
    ELSE ""

SearchError(message) == [kind |-> "error", message |-> message, parts |-> <<message>>]

\* what the call gives back: the text of a result, or the exception
SearchReturn(r) ==
    IF r.k = "raise" THEN [kind |-> "raised", message |-> r.exc, parts |-> <<>>]
    ELSE IF r.k = "none" THEN [kind |-> "none", message |-> "", parts |-> <<>>]
    ELSE [kind |-> "text", message |-> r.parts[1], parts |-> r.parts]

\* web_search
web_search(query, web) ==
    IF validate_query(query) # ""
    THEN [text |-> SearchError(validate_query(query)), trace |-> <<>>]
    ELSE With(search_methods(Strip(query.text), web), LAMBDA r :
             [text |-> SearchReturn(r.result), trace |-> r.trace])

(***************************************************************************)
(* SearchSpec: one call of web_search.                                     *)
(***************************************************************************)
QueryWords == {"Python", "weather", "news", "stock", "recipe", "health", "tla"}

QueryTexts ==
    {<<>>, <<Space>>, <<Space, Space>>}
    \cup {<<Ident(<<w>>)>> : w \in QueryWords}
    \cup {<<Space, Ident(<<w>>), Space>> : w \in QueryWords}
    \cup {<<Ident(<<"tla">>), Space, Ident(<<w>>)>> : w \in QueryWords}
    \cup {<<Fill(n)>> : n \in {MaxQueryLen - 1, MaxQueryLen, MaxQueryLen + 1}}
    \cup {<<Space, Fill(MaxQueryLen), Space>>}
    \cup {<<Fill(n), Ident(<<"Python">>)>> : n \in {MaxQueryLen - 6, MaxQueryLen - 5}}

Queries == {NotStrArg} \cup {StrArg(t) : t \in QueryTexts}

SearchInit ==
    /\ mode = "search"
    /\ messages = <<>>
    /\ uuid = 0
    /\ RunIdle
    /\ argument \in Queries
    /\ returned = NotCalled
    /\ callee = "none"
    /\ trace = <<>>

\* web_search.invoke({"query": query}) with the network answering as web
Search(web) ==
    /\ mode = "search"
    /\ returned = NotCalled
    /\ returned' = web_search(argument, web).text
    /\ trace' = web_search(argument, web).trace
    /\ callee' = "web_search"
    /\ UNCHANGED <<mode, messages, uuid, runVars, argument>>

SearchNext == \E web \in Webs : Search(web)

SearchSpec == SearchInit /\ [][SearchNext]_vars

(***************************************************************************)
(* Claims about web_search (SearchSpec).                                   *)
(***************************************************************************)
Searched == mode = "search" /\ callee = "web_search"

\* the argument fails a check: not a string, blank, or longer than
\* MaxQueryLen once the white space around it is gone
InvalidQuery ==
    \/ ~argument.str
    \/ Blank(argument.text)
    \/ Length(Strip(argument.text)) > MaxQueryLen

Requests == SelectSeq(trace, LAMBDA e : e.ev = "get")

Calls == SelectSeq(trace, LAMBDA e : e.ev = "call")

Productive == {"answer", "extract", "ok"}

MethodOrder == <<"duckduckgo_instant", "wikipedia", "web_scraping", "fallback">>

\* the method whose request a host receives
MethodOf(host) ==
    IF host = "api.duckduckgo.com" THEN "duckduckgo_instant"
    ELSE IF host = "en.wikipedia.org" THEN "wikipedia"
    ELSE "web_scraping"

\* the part of a text that tells which method made it
MadeBy(parts) ==
    IF parts[3] = "Answer" THEN "duckduckgo_instant"
    ELSE IF parts[3] = "extract" THEN "wikipedia"
    ELSE IF parts[3] = "programming" THEN "web_scraping"
    ELSE "fallback"

\* C28: for a valid query the methods are called in the order DuckDuckGo,
\* Wikipedia, web scraping; the first result that is not empty is
\* returned and no later method is called; a method that fails or finds
\* nothing is passed over; when all three give nothing the fallback text
\* for the query is returned; the text returned is never empty.
C28_FirstResultInOrder ==
    (Searched /\ ~InvalidQuery) =>
        /\ Calls = SubSeq([i \in 1..4 |-> CallOf(MethodOrder[i])], 1, Len(Calls))
        /\ Len(Calls) >= 1
        /\ returned.kind = "text" /\ returned.parts # <<>>
        /\ MadeBy(returned.parts) = Calls[Len(Calls)].what
        /\ \A i \in DOMAIN Requests :
              Requests[i].response \in Productive
                 <=> /\ i = Len(Requests)
                     /\ MethodOf(Requests[i].what) = Calls[Len(Calls)].what
        /\ Calls[Len(Calls)].what = "fallback" =>
              returned.parts = <<SearchResultsFor, Strip(argument.text),
                                 fallback_pattern(Strip(argument.text))>>

\* DuckDuckGo found nothing and Wikipedia had an extract
C28_Witness ==
    /\ Searched /\ ~InvalidQuery
    /\ Requests = <<Get("api.duckduckgo.com", "nothing"), Get("en.wikipedia.org", "extract")>>
    /\ Calls = <<CallOf("duckduckgo_instant"), CallOf("wikipedia")>>
    /\ MadeBy(returned.parts) = "wikipedia"

(***************************************************************************)
(* Claim about the registry of tools (Spec).                               *)
(***************************************************************************)
\* the tool messages the run has added to the conversation
Answers == SelectSeq(Generated, LAMBDA m : m.type = "tool")

\* C27: the set of tools does not change during a run: at every invocation
\* of the backend the names bound to it are the names ToolNode was built
\* with, and a call is dispatched to a tool exactly when its name is one of
\* the names that were offered.
C27_RegistryFixed ==
    mode = "run" =>
        /\ Len(offered) = Len(responses)
        /\ \A i \in DOMAIN offered : offered[i] = tools_by_name
        /\ \A i \in DOMAIN outputs :
              outputs[i] # None =>
                 (outputs[i].content = InvalidTool
                     <=> \E j \in DOMAIN offered : tool_calls[i].name \notin offered[j])
        /\ \A i \in DOMAIN Answers :
              Answers[i].content = InvalidTool
                 <=> \E j \in DOMAIN offered : Answers[i].name \notin offered[j]

\* the backend was invoked twice, and a call to a name that was not offered
\* and a call to one that was were answered in between
C27_Witness ==
    /\ mode = "run"
    /\ Len(offered) >= 2
    /\ toolPhases >= 1
    /\ \E i \in DOMAIN Answers : Answers[i].content = InvalidTool
    /\ \E i \in DOMAIN Answers : Answers[i].name \in tools_by_name

====
